---- MODULE Spec2Model ----
(***************************************************************************)
(* Model of go-rakis: the segment trie router (app/segmenttree), the       *)
(* request parser, the connection driver and the response serializer       *)
(* (app/server) and the router's dispatch (app/router).                    *)
(*                                                                         *)
(* Go strings are sequences of one-character strings, so that              *)
(* strings.Split, strings.HasPrefix, strings.TrimPrefix, strings.Contains  *)
(* and strconv.Itoa are computed character by character; header names,    *)
(* method and version tokens and status lines are single symbols.  A pointer to a SegmentNode is the     *)
(* access path of the node from the root (every node has one parent).      *)
(***************************************************************************)
EXTENDS Integers, Sequences, FiniteSets, TLC

VARIABLES
  tree,      \* the SegmentTree: node -> SegmentNode
  routes,    \* the Insert calls made: (method, path) -> handlers given
  ninserts,  \* how many Insert calls were made
  res,       \* the Search call whose result the caller holds
  searches,  \* the Search calls that run at the same time, each with its
             \* params map and its stack of searchNode calls
  call,      \* respond's arguments req and r as the caller passed them
  rsp,       \* respond's r, with the headers respond has set
  loc,       \* respond's locals: isChunked, bodyToWrite and the loop state
  conn,      \* the conn.Write calls made, in order, each with its outcome
  pc,        \* where respond is
  reader,    \* the bytes of the connection that parseRequest has not read
  result,    \* parseRequest's result and the error it returns
  hc         \* handleConnection: where it is and what it has called

treeVars == <<tree, routes, ninserts, res, searches>>

respondVars == <<call, rsp, loc, conn, pc>>

serverVars == <<reader, result, hc>>

vars ==
  <<tree, routes, ninserts, res, searches, call, rsp, loc, conn, pc, reader,
    result, hc>>

(***************************************************************************)
(* Bounds.                                                                 *)
(***************************************************************************)
\* Insert calls in a run over patterns of one or two segments.
MaxInserts == 2

\* Insert calls of a run over the patterns with colons.
MaxColonInserts == 2

\* Insert calls in a run over patterns of one segment.
MaxShortInserts == 3

\* Insert calls in a run over patterns of three parameter segments.
MaxDeepInserts == 2

\* Reads of the body stream in one respond call.
MaxReads == 3

\* The most bytes one read of the body stream returns.
MaxRead == 2

\* The most header lines of a request.
MaxHeaderLines == 2

\* Routes registered before the server listens.
MaxRoutes == 1

\* Insert calls before the Searches that run at the same time.
MaxConcurrentInserts == 2

\* Routes registered in a run of the echo server.
MaxEchoRoutes == 2

\* Insert calls in a run of the versioned-routes family.
MaxVersionInserts == 2

\* len(buf) of the chunk loop.
BufSize == 4096

\* The segments of a route pattern: "", "a", ":a", ":b".
PatternSegments == {<<>>, <<"a">>, <<":", "a">>, <<":", "b">>}

\* The segments of a requested path: "", "a", "b".
RequestSegments == {<<>>, <<"a">>, <<"b">>}

Methods == {"GET", "POST"}

Handlers == {"h1", "h2"}

\* The nil handler of a failed lookup.
NilHandler == "nil"

(***************************************************************************)
(* Strings and maps.                                                       *)
(***************************************************************************)
EmptyString == <<>>

EmptyMap == <<>>

\* m[k] = v of a Go map.
MapSet(m, k, v) == [x \in (DOMAIN m) \cup {k} |-> IF x = k THEN v ELSE m[x]]

\* delete(m, k) of a Go map.
MapDelete(m, k) == [x \in (DOMAIN m) \ {k} |-> m[x]]

\* A map value that may be nil.
NilMap == [isNil |-> TRUE, m |-> EmptyMap]

MkMap(f) == [isNil |-> FALSE, m |-> f]

\* A split that drops the empty pieces, as strings.FieldsFunc would.
RECURSIVE SplitDropEmpty(_)
SplitDropEmpty(s) ==
  IF \A i \in 1..Len(s) : s[i] # "/"
    THEN IF s = <<>> THEN <<>> ELSE <<s>>
    ELSE LET i == CHOOSE j \in 1..Len(s) :
                    s[j] = "/" /\ \A k \in 1..(j - 1) : s[k] # "/"
         IN  (IF i = 1 THEN <<>> ELSE <<SubSeq(s, 1, i - 1)>>)
               \o SplitDropEmpty(SubSeq(s, i + 1, Len(s)))

\* strings.Split(path, "/"): the pieces between the slashes, empty ones kept.
RECURSIVE Split(_)
Split(s) ==
  IF \A i \in 1..Len(s) : s[i] # "/"
    THEN <<s>>
    ELSE LET i == CHOOSE j \in 1..Len(s) :
                    s[j] = "/" /\ \A k \in 1..(j - 1) : s[k] # "/"
         IN  <<SubSeq(s, 1, i - 1)>> \o Split(SubSeq(s, i + 1, Len(s)))

\* strings.HasPrefix(seg, ":")
HasPrefix(seg) == Len(seg) >= 1 /\ seg[1] = ":"

\* A TrimPrefix that leaves the ':' in place.
TrimPrefixNothing(seg) == seg

\* strings.TrimPrefix(seg, ":")
TrimPrefix(seg) == IF HasPrefix(seg) THEN Tail(seg) ELSE seg

\* The path string whose segments are segs: they joined by "/".
RECURSIVE Join(_)
Join(segs) ==
  IF Len(segs) = 0 THEN EmptyString
  ELSE IF Len(segs) = 1 THEN segs[1]
  ELSE segs[1] \o <<"/">> \o Join(Tail(segs))

\* The path strings of one segment drawn from segs.
OneSegment(segs) == {Join(<<s>>) : s \in segs}

\* The path strings of two segments drawn from segs.
TwoSegments(segs) == {Join(<<s, t>>) : s \in segs, t \in segs}

\* The path strings of three segments drawn from segs.
ThreeSegments(segs) == {Join(<<s, t, u>>) : s \in segs, t \in segs, u \in segs}

\* Patterns given to Insert: "", "/", "a", "a/:a", ":a/:b", ...
Patterns == OneSegment(PatternSegments) \cup TwoSegments(PatternSegments)

\* Paths given to Search: "", "/", "a", "b", "a/b", "b/", ...
RequestPaths == OneSegment(RequestSegments) \cup TwoSegments(RequestSegments)

\* One-segment patterns and paths.
ShortPatterns == OneSegment(PatternSegments)

ShortRequestPaths == OneSegment(RequestSegments)

\* Patterns of three parameter segments, ":a/:a/:b", and paths "a/b/a".
DeepPatterns == ThreeSegments({<<":", "a">>, <<":", "b">>})

DeepRequestPaths == ThreeSegments({<<"a">>, <<"b">>})

S_echo == <<"e", "c", "h", "o">>

S_msg == <<"m", "s", "g">>

S_message == <<"m", "e", "s", "s", "a", "g", "e">>

S_v1 == <<"v", "1">>

S_v2 == <<"v", "2">>

S_hello == <<"h", "e", "l", "l", "o">>

S_world == <<"w", "o", "r", "l", "d">>

\* The path string "/" + segs joined by "/".
Slash(segs) == <<"/">> \o Join(segs)

\* Patterns "/echo/:msg/v1", "/echo/:message/v2", ... and paths
\* "/echo/hello/v1", "/echo/world/v2", ...
VersionPatterns ==
  {Slash(<<S_echo, <<":">> \o n, v>>) : n \in {S_msg, S_message},
                                        v \in {S_v1, S_v2}}

VersionRequestPaths ==
  {Slash(<<S_echo, t, v>>) : t \in {S_hello, S_world}, v \in {S_v1, S_v2}}

(***************************************************************************)
(* The trie.                                                               *)
(***************************************************************************)
RootNode == <<>>

newNode ==
  [children |-> EmptyMap, parameterChildren |-> EmptyMap,
   paramName |-> EmptyString, handlers |-> EmptyMap, isEndOfPath |-> FALSE]

NewSegmentTree == [n \in {RootNode} |-> newNode]

\* An Insert that takes every segment for a literal one.
IsParamSegmentNever(seg) == FALSE

\* Whether Insert treats the segment as a parameter capture.
IsParamSegment(seg) == HasPrefix(seg)

\* One iteration of Insert's loop: the tree and the node after segment seg.
InsertStep(t, node, seg) ==
  IF IsParamSegment(seg)
    THEN LET name == TrimPrefix(seg)
         IN  IF name \in DOMAIN t[node].parameterChildren
               THEN <<t, t[node].parameterChildren[name]>>
               ELSE LET child == Append(node, <<"p", name>>)
                        t1 == [x \in (DOMAIN t) \cup {child} |->
                                 IF x = child
                                   THEN [newNode EXCEPT !.paramName = name]
                                   ELSE t[x]]
                    IN  <<[t1 EXCEPT ![node].parameterChildren =
                                MapSet(@, name, child)], child>>
    ELSE IF seg \in DOMAIN t[node].children
           THEN <<t, t[node].children[seg]>>
           ELSE LET child == Append(node, <<"c", seg>>)
                    t1 == [x \in (DOMAIN t) \cup {child} |->
                             IF x = child THEN newNode ELSE t[x]]
                IN  <<[t1 EXCEPT ![node].children = MapSet(@, seg, child)],
                      child>>

RECURSIVE InsertWalk(_, _, _)
InsertWalk(t, node, segments) ==
  IF Len(segments) = 0 THEN <<t, node>>
  ELSE LET step == InsertStep(t, node, Head(segments))
       IN  InsertWalk(step[1], step[2], Tail(segments))

\* A handler map that forgets the handlers of the other methods.
SetHandlerOnly(handlers, method, handler) == [x \in {method} |-> handler]

\* A handler map that keeps the handler it already has for the method.
SetHandlerKeepFirst(handlers, method, handler) ==
  IF method \in DOMAIN handlers THEN handlers
  ELSE [x \in (DOMAIN handlers) \cup {method} |->
          IF x = method THEN handler ELSE handlers[x]]

\* node.handlers[method] = handler
SetHandler(handlers, method, handler) == MapSet(handlers, method, handler)

\* An Insert that sets the handler and leaves isEndOfPath as it was.
InsertTreeNoEnd(t, method, path, handler) ==
  LET walked == InsertWalk(t, RootNode, Split(path))
  IN  [walked[1] EXCEPT ![walked[2]].handlers = SetHandler(@, method, handler)]

\* SegmentTree.Insert: the tree after Insert(method, path, handler).
InsertTree(t, method, path, handler) ==
  LET walked == InsertWalk(t, RootNode, Split(path))
      t1 == walked[1]
      node == walked[2]
  IN  [t1 EXCEPT ![node].isEndOfPath = TRUE,
                 ![node].handlers = SetHandler(@, method, handler)]

Miss(params) == [h |-> NilHandler, ok |-> FALSE, params |-> params]

\* A lookup that falls back to the handler of another method.
EndLookupAnyMethod(n, method, params) ==
  IF ~n.isEndOfPath THEN Miss(params)
  ELSE IF method \in DOMAIN n.handlers
         THEN [h |-> n.handlers[method], ok |-> TRUE, params |-> params]
         ELSE IF DOMAIN n.handlers # {}
                THEN [h |-> n.handlers[CHOOSE m \in DOMAIN n.handlers : TRUE],
                      ok |-> TRUE, params |-> params]
                ELSE Miss(params)

\* The base case of searchNode: all segments consumed at node.
EndLookup(n, method, params) ==
  IF ~n.isEndOfPath THEN Miss(params)
  ELSE IF method \in DOMAIN n.handlers
         THEN [h |-> n.handlers[method], ok |-> TRUE, params |-> params]
         ELSE Miss(params)

\* node.children[seg] exists
HasLiteralChild(n, seg) == seg \in DOMAIN n.children

\* A guard that lets the empty segment bind too.
MayBindAny(seg) == TRUE

\* The guard of the loop over parameterChildren.
MayBindParam(seg) == seg # EmptyString

\* A backtrack that leaves the binding of the failed branch in params.
UnbindNothing(params, name) == params

\* What is left in params when the subtree of parameter child name failed.
Unbind(params, name) == MapDelete(params, name)

(***************************************************************************)
(* searchNode: the set of outcomes [h, ok, params] it can return, one for  *)
(* each order in which range may visit node.parameterChildren.  params is  *)
(* the one map shared by the whole search, as it is when the call returns. *)
(***************************************************************************)
RECURSIVE searchNode(_, _, _, _, _)
RECURSIVE paramLoop(_, _, _, _, _, _, _)

\* A searchNode that tries the parameter children before the literal child.
searchNodeParamFirst(t, node, segments, method, params) ==
  IF Len(segments) = 0
    THEN {EndLookup(t[node], method, params)}
    ELSE LET seg == Head(segments)
             rest == Tail(segments)
             bound ==
               IF MayBindParam(seg)
                 THEN paramLoop(t, node, seg, rest, method, params,
                                DOMAIN t[node].parameterChildren)
                 ELSE {Miss(params)}
         IN  UNION {IF o.ok THEN {o}
                    ELSE IF HasLiteralChild(t[node], seg)
                      THEN searchNode(t, t[node].children[seg], rest, method,
                                      o.params)
                      ELSE {Miss(o.params)}
                    : o \in bound}

searchNode(t, node, segments, method, params) ==
  IF Len(segments) = 0
    THEN {EndLookup(t[node], method, params)}
    ELSE LET seg == Head(segments)
             rest == Tail(segments)
             literal ==
               IF HasLiteralChild(t[node], seg)
                 THEN searchNode(t, t[node].children[seg], rest, method, params)
                 ELSE {Miss(params)}
         IN  UNION {IF o.ok THEN {o}
                    ELSE IF MayBindParam(seg)
                      THEN paramLoop(t, node, seg, rest, method, o.params,
                                     DOMAIN t[node].parameterChildren)
                      ELSE {Miss(o.params)}
                    : o \in literal}

\* The range loop over the parameter children not yet visited.
paramLoop(t, node, seg, rest, method, params, names) ==
  IF names = {} THEN {Miss(params)}
  ELSE UNION {
         LET sub == searchNode(t, t[node].parameterChildren[name], rest,
                               method, MapSet(params, name, seg))
         IN  UNION {IF o.ok THEN {o}
                    ELSE paramLoop(t, node, seg, rest, method,
                                   Unbind(o.params, name), names \ {name})
                    : o \in sub}
         : name \in names}

\* A miss that hands back the params map the search worked on.
NotFoundWithParams(params) ==
  [handler |-> NilHandler, params |-> MkMap(params), found |-> FALSE]

\* return nil, nil, false
NotFound(params) == [handler |-> NilHandler, params |-> NilMap, found |-> FALSE]

\* A Search that returns a nil params map when nothing was bound.
SearchNilWhenEmpty(t, method, path) ==
  {IF o.ok
     THEN [handler |-> o.h,
           params |-> IF o.params = EmptyMap THEN NilMap ELSE MkMap(o.params),
           found |-> TRUE]
     ELSE NotFound(o.params)
   : o \in searchNode(t, RootNode, Split(path), method, EmptyMap)}

\* SegmentTree.Search: the results [handler, params, found] it can return.
Search(t, method, path) ==
  {IF o.ok THEN [handler |-> o.h, params |-> MkMap(o.params), found |-> TRUE]
   ELSE NotFound(o.params)
   : o \in searchNode(t, RootNode, Split(path), method, EmptyMap)}

(***************************************************************************)
(* The router as a state machine.  routes records the Insert calls made:   *)
(* for each (method, path) the handlers given, in the order given.  res is *)
(* the Search call the caller holds the result of.                         *)
(***************************************************************************)
NoSearch == [called |-> FALSE]

\* The Search calls that may run at the same time.
Searchers == {1, 2}

\* A Search that is not under way.
IdleSearch ==
  [pc |-> "idle", method |-> "", path |-> EmptyString, params |-> EmptyMap,
   stack |-> <<>>, result |-> [found |-> FALSE]]

NoSearches == [i \in Searchers |-> IdleSearch]

\* No connection has been accepted.
ServerIdle ==
  /\ reader = <<>>
  /\ result = [made |-> FALSE]
  /\ hc = [pc |-> "idle"]

\* No respond call is under way.
RespondIdle ==
  /\ call = [made |-> FALSE]
  /\ rsp = [made |-> FALSE]
  /\ loc = [made |-> FALSE]
  /\ conn = <<>>
  /\ pc = "idle"

TreeInit ==
  /\ tree = NewSegmentTree
  /\ routes = EmptyMap
  /\ ninserts = 0
  /\ res = NoSearch
  /\ searches = NoSearches
  /\ RespondIdle
  /\ ServerIdle

\* The handlers given so far for (method, path).
Given(rs, method, path) ==
  IF <<method, path>> \in DOMAIN rs THEN rs[<<method, path>>] ELSE <<>>

\* t.Insert(method, path, handler), at most limit times in a run.
InsertCall(limit, method, path, handler) ==
  /\ ~res.called
  /\ \A i \in Searchers : searches[i].pc = "idle"
  /\ ninserts < limit
  /\ tree' = InsertTree(tree, method, path, handler)
  /\ routes' = MapSet(routes, <<method, path>>,
                      Append(Given(routes, method, path), handler))
  /\ ninserts' = ninserts + 1
  /\ res' = NoSearch
  /\ UNCHANGED searches
  /\ UNCHANGED <<respondVars, serverVars>>

\* t.Search(method, path), for one order of visiting the parameter children.
SearchCall(method, path) ==
  /\ ~res.called
  /\ \E r \in Search(tree, method, path) :
       res' = [called |-> TRUE, method |-> method, path |-> path,
               handler |-> r.handler, params |-> r.params, found |-> r.found]
  /\ UNCHANGED <<tree, routes, ninserts, searches>>
  /\ UNCHANGED <<respondVars, serverVars>>

\* The caller is done with the result of its Search.
Discard ==
  /\ res.called
  /\ res' = NoSearch
  /\ UNCHANGED <<tree, routes, ninserts, searches>>
  /\ UNCHANGED <<respondVars, serverVars>>

Insert(method, path, handler) == InsertCall(MaxInserts, method, path, handler)

TreeNext ==
  \/ \E m \in Methods, p \in Patterns, h \in Handlers : Insert(m, p, h)
  \/ \E m \in Methods, p \in RequestPaths : SearchCall(m, p)
  \/ Discard

\* Routes of one or two segments.
SpecTree == TreeInit /\ [][TreeNext]_vars

InsertShort(method, path, handler) ==
  InsertCall(MaxShortInserts, method, path, handler)

ShortNext ==
  \/ \E m \in Methods, p \in ShortPatterns, h \in Handlers :
       InsertShort(m, p, h)
  \/ \E m \in Methods, p \in ShortRequestPaths : SearchCall(m, p)
  \/ Discard

\* Routes of one segment, more of them.
SpecShort == TreeInit /\ [][ShortNext]_vars

\* Pattern segments with one colon, two colons and nothing but a colon.
ColonSegments == {<<"a">>, <<":", "a">>, <<":", ":", "a">>, <<":">>}

ColonPatterns == OneSegment(ColonSegments) \cup TwoSegments(ColonSegments)

ColonRequestPaths == {<<"a">>, <<":", "a">>, <<"a", "/", "a">>}

InsertColon(method, path, handler) ==
  InsertCall(MaxColonInserts, method, path, handler)

ColonNext ==
  \/ \E m \in Methods, p \in ColonPatterns : InsertColon(m, p, "h1")
  \/ \E m \in Methods, p \in ColonRequestPaths : SearchCall(m, p)
  \/ Discard

\* Routes whose parameter segments have names like "", "a" and ":a".
SpecColon == TreeInit /\ [][ColonNext]_vars

InsertDeep(method, path, handler) ==
  InsertCall(MaxDeepInserts, method, path, handler)

DeepNext ==
  \/ \E m \in Methods, p \in DeepPatterns, h \in Handlers : InsertDeep(m, p, h)
  \/ \E m \in Methods, p \in DeepRequestPaths : SearchCall(m, p)
  \/ Discard

\* Routes of three parameter segments.
SpecDeep == TreeInit /\ [][DeepNext]_vars

InsertVersion(method, path, handler) ==
  InsertCall(MaxVersionInserts, method, path, handler)

VersionNext ==
  \/ \E m \in Methods, p \in VersionPatterns, h \in Handlers :
       InsertVersion(m, p, h)
  \/ \E m \in Methods, p \in VersionRequestPaths : SearchCall(m, p)
  \/ Discard

\* Routes "/echo/:name/version" whose parameter branches are siblings.
SpecVersions == TreeInit /\ [][VersionNext]_vars

(***************************************************************************)
(* Search calls that run at the same time.  Each call of searchNode is a   *)
(* frame on the stack of its Search; a step of a Search is one entry into  *)
(* searchNode or one round of the loop over parameterChildren, and the     *)
(* steps of the Searches interleave.                                       *)
(***************************************************************************)
ConcurrentPatterns ==
  {<<":", "a", "/", "a">>, <<":", "b", "/", "b">>, <<":", "a", "/", ":", "b">>,
   <<"a", "/", ":", "a">>}

ConcurrentRequestPaths ==
  {<<"a", "/", "a">>, <<"a", "/", "b">>, <<"b", "/", "b">>}

\* A params map that every Search writes to.
WithParamsShared(ss, i, params) ==
  [j \in DOMAIN ss |-> [ss[j] EXCEPT !.params = params]]

\* The params map of Search i, made by that call, becomes params.
WithParams(ss, i, params) == [ss EXCEPT ![i].params = params]

\* The frame of a call searchNode(node, segments, method, params).
Frame(node, segments) ==
  [node |-> node, segments |-> segments, stage |-> "enter", todo |-> {},
   name |-> EmptyString]

\* The frame on top goes on to the loop over the parameter children.
ToParamLoop(t, stack) ==
  LET f == stack[Len(stack)]
  IN  [stack EXCEPT ![Len(stack)] =
         [f EXCEPT !.stage = "params",
                   !.todo = IF MayBindParam(Head(f.segments))
                              THEN DOMAIN t[f.node].parameterChildren
                              ELSE {}]]

\* Search i returns (h, params, true) or (nil, nil, false).
SearchReturns(ss, i, h, ok) ==
  [ss EXCEPT ![i].pc = "returned", ![i].stack = <<>>,
             ![i].result =
               IF ok THEN [handler |-> h, params |-> MkMap(ss[i].params),
                           found |-> TRUE]
               ELSE NotFound(ss[i].params)]

\* The call on top of the stack returns (h, ok) to its caller.
Return(t, ss, i, h, ok) ==
  LET callers == SubSeq(ss[i].stack, 1, Len(ss[i].stack) - 1)
  IN  IF ok \/ callers = <<>> THEN SearchReturns(ss, i, h, ok)
      ELSE LET f == callers[Len(callers)]
           IN  IF f.stage = "literal"
                 THEN [ss EXCEPT ![i].stack = ToParamLoop(t, callers)]
                 ELSE [WithParams(ss, i, Unbind(ss[i].params, f.name))
                         EXCEPT ![i].stack =
                           [callers EXCEPT ![Len(callers)].stage = "params"]]

\* t.Search(method, path) is called: params is made, searchNode is entered.
SearchBegin(i, method, path) ==
  /\ searches[i].pc = "idle"
  /\ searches' =
       [WithParams(searches, i, EmptyMap)
          EXCEPT ![i].pc = "running", ![i].method = method, ![i].path = path,
                 ![i].stack = <<Frame(RootNode, Split(path))>>]
  /\ UNCHANGED <<tree, routes, ninserts, res>>
  /\ UNCHANGED <<respondVars, serverVars>>

\* A loop over parameterChildren that never moves on from a child.
NotYetVisitedAll(todo, name) == todo

\* The children the loop over parameterChildren has yet to visit once it has
\* taken the child name: range yields each key of the map once.
NotYetVisited(todo, name) == todo \ {name}

\* One step of Search i.
SearchStep(i) ==
  /\ searches[i].pc = "running"
  /\ LET s == searches[i]
         f == s.stack[Len(s.stack)]
         n == tree[f.node]
     IN  IF f.stage = "enter"
           THEN IF Len(f.segments) = 0
                  THEN LET o == EndLookup(n, s.method, s.params)
                       IN  searches' = Return(tree, searches, i, o.h, o.ok)
                ELSE IF HasLiteralChild(n, Head(f.segments))
                  THEN searches' =
                         [searches EXCEPT ![i].stack =
                            Append([s.stack EXCEPT ![Len(s.stack)].stage = "literal"],
                                   Frame(n.children[Head(f.segments)],
                                         Tail(f.segments)))]
                ELSE searches' =
                       [searches EXCEPT ![i].stack = ToParamLoop(tree, s.stack)]
         ELSE IF f.todo = {}
           THEN searches' = Return(tree, searches, i, NilHandler, FALSE)
         ELSE \E name \in f.todo :
                searches' =
                  [WithParams(searches, i,
                              MapSet(s.params, name, Head(f.segments)))
                     EXCEPT ![i].stack =
                       Append([s.stack EXCEPT
                                 ![Len(s.stack)] =
                                   [f EXCEPT !.stage = "bound",
                                             !.todo = NotYetVisited(f.todo, name),
                                             !.name = name]],
                              Frame(n.parameterChildren[name],
                                    Tail(f.segments)))]
  /\ UNCHANGED <<tree, routes, ninserts, res>>
  /\ UNCHANGED <<respondVars, serverVars>>

\* The caller of Search i is done with its result.
SearchEnd(i) ==
  /\ searches[i].pc = "returned"
  /\ searches' = [searches EXCEPT ![i] = IdleSearch]
  /\ UNCHANGED <<tree, routes, ninserts, res>>
  /\ UNCHANGED <<respondVars, serverVars>>

InsertBefore(method, path, handler) ==
  InsertCall(MaxConcurrentInserts, method, path, handler)

ConcurrentNext ==
  \/ \E p \in ConcurrentPatterns, h \in Handlers : InsertBefore("GET", p, h)
  \/ \E i \in Searchers, p \in ConcurrentRequestPaths : SearchBegin(i, "GET", p)
  \/ \E i \in Searchers : SearchStep(i)
  \/ \E i \in Searchers : SearchEnd(i)

\* Inserts, and then Searches whose steps interleave.
SpecConcurrent == TreeInit /\ [][ConcurrentNext]_vars

\* The same, with every Search that is under way taking its next step: a
\* Search runs in a goroutine of its own and its steps wait for nothing.
SpecConcurrentFair ==
  SpecConcurrent /\ \A i \in Searchers : WF_vars(SearchStep(i))

(***************************************************************************)
(* The response serializer: respond(conn, req, r) of app/server.           *)
(***************************************************************************)
StatusOK == 0

StatusNotFound == 1

StatusBadRequest == 2

StatusInternalServerError == 3

StatusCreated == 4

Statuses ==
  {StatusOK, StatusNotFound, StatusBadRequest, StatusInternalServerError,
   StatusCreated}

S_close == <<"c", "l", "o", "s", "e">>

S_Close == <<"C", "l", "o", "s", "e">>

S_keepalive == <<"k", "e", "e", "p", "-", "a", "l", "i", "v", "e">>

S_chunked == <<"c", "h", "u", "n", "k", "e", "d">>

S_gzip == <<"g", "z", "i", "p">>

S_br == <<"b", "r">>

S_br_gzip == <<"b", "r", ",", " ", "g", "z", "i", "p">>

S_0 == <<"0">>

CRLF == <<"\r", "\n">>

\* A []byte that may be nil.
NilBytes == [isNil |-> TRUE, b |-> <<>>]

MkBytes(b) == [isNil |-> FALSE, b |-> b]

\* m[k] of a Go map of strings: the empty string when k is absent.
MapGet(m, k) == IF k \in DOMAIN m THEN m[k] ELSE EmptyString

\* strings.Contains(s, sub)
Contains(s, sub) ==
  \E i \in 0..(Len(s) - Len(sub)) : SubSeq(s, i + 1, i + Len(sub)) = sub

Digits ==
  <<"0", "1", "2", "3", "4", "5", "6", "7", "8", "9",
    "a", "b", "c", "d", "e", "f">>

\* strconv.FormatInt(n, base) for n >= 0.
RECURSIVE FormatInt(_, _)
FormatInt(n, base) ==
  IF n < base THEN <<Digits[n + 1]>>
  ELSE Append(FormatInt(n \div base, base), Digits[(n % base) + 1])

\* strconv.Itoa(n)
Itoa(n) == FormatInt(n, 10)

\* The number a string of decimal digits stands for.
RECURSIVE DecimalValue(_)
DecimalValue(s) ==
  IF s = <<>> THEN 0
  ELSE 10 * DecimalValue(SubSeq(s, 1, Len(s) - 1))
         + (CHOOSE d \in 0..9 : Digits[d + 1] = s[Len(s)])

\* An Atoi that takes no sign.
AtoiUnsigned(s) ==
  IF s # <<>> /\ \A i \in DOMAIN s : \E d \in 0..9 : Digits[d + 1] = s[i]
    THEN [err |-> FALSE, n |-> DecimalValue(s)]
    ELSE [err |-> TRUE, n |-> 0]

\* strconv.Atoi(s): an optional sign and then one or more decimal digits.
Atoi(s) ==
  LET signed == s # <<>> /\ s[1] \in {"+", "-"}
      digits == IF signed THEN Tail(s) ELSE s
  IN  IF digits # <<>>
           /\ \A i \in DOMAIN digits : \E d \in 0..9 : Digits[d + 1] = digits[i]
        THEN [err |-> FALSE,
              n |-> IF signed /\ s[1] = "-" THEN 0 - DecimalValue(digits)
                    ELSE DecimalValue(digits)]
        ELSE [err |-> TRUE, n |-> 0]

\* The output of a gzip.Writer given b: a header, the data, a trailer.
\* compress/gzip is not part of the repository; only the length and the
\* invertibility of its output matter here.
Gzip(b) == <<"gzip-header">> \o b \o <<"gzip-trailer">>

\* An rspMap without the reason phrases.
rspMapNoReason(status) ==
  CASE status = StatusOK -> <<"HTTP/1.1 200">>
    [] status = StatusNotFound -> <<"HTTP/1.1 404">>
    [] status = StatusBadRequest -> <<"HTTP/1.1 400">>
    [] status = StatusInternalServerError -> <<"HTTP/1.1 500">>
    [] status = StatusCreated -> <<"HTTP/1.1 201">>
    [] OTHER -> <<>>

\* rspMap[status]: the zero value "" for a status that is no key.
rspMap(status) ==
  CASE status = StatusOK -> <<"HTTP/1.1 200 OK">>
    [] status = StatusNotFound -> <<"HTTP/1.1 404 Not Found">>
    [] status = StatusBadRequest -> <<"HTTP/1.1 400 Bad Request">>
    [] status = StatusInternalServerError ->
         <<"HTTP/1.1 500 Internal Server Error">>
    [] status = StatusCreated -> <<"HTTP/1.1 201 Created">>
    [] OTHER -> <<>>

\* An isErrorStatus that leaves out the server error.
isClientErrorStatus(status) ==
  status = StatusBadRequest \/ status = StatusNotFound

isErrorStatus(status) ==
  \/ status = StatusBadRequest
  \/ status = StatusNotFound
  \/ status = StatusInternalServerError

connectionHeader(reqHeaders, status) ==
  IF MapGet(reqHeaders, "Connection") = S_close \/ isErrorStatus(status)
    THEN S_close
    ELSE S_keepalive

\* r.Headers["Connection"] = connectionHeader
SetConnection(headers, reqHeaders, status) ==
  MapSet(headers, "Connection", connectionHeader(reqHeaders, status))

\* A canUseGzip that wants Accept-Encoding to be exactly "gzip".
canUseGzipExact(reqHeaders) ==
  /\ "Accept-Encoding" \in DOMAIN reqHeaders
  /\ reqHeaders["Accept-Encoding"] = S_gzip

canUseGzip(reqHeaders) ==
  /\ "Accept-Encoding" \in DOMAIN reqHeaders
  /\ Contains(reqHeaders["Accept-Encoding"], S_gzip)

\* A FixedFraming that computes no Content-Length from the body.
FixedFramingZeroLength(headers, reqHeaders, body) ==
  LET h1 == IF "Content-Length" \in DOMAIN headers THEN headers
            ELSE MapSet(headers, "Content-Length", S_0)
  IN  IF canUseGzip(reqHeaders) /\ ~body.isNil
        THEN LET zipped == Gzip(body.b)
             IN  [headers |->
                    MapSet(MapSet(h1, "Content-Encoding", S_gzip),
                           "Content-Length", Itoa(Len(zipped))),
                  bodyToWrite |-> MkBytes(zipped)]
        ELSE [headers |-> h1, bodyToWrite |-> body]

\* The framing of a response without a body stream: headers and bodyToWrite.
FixedFraming(headers, reqHeaders, body) ==
  LET h1 == IF "Content-Length" \in DOMAIN headers THEN headers
            ELSE IF ~body.isNil
              THEN MapSet(headers, "Content-Length", Itoa(Len(body.b)))
              ELSE MapSet(headers, "Content-Length", S_0)
  IN  IF canUseGzip(reqHeaders) /\ ~body.isNil
        THEN LET zipped == Gzip(body.b)
             IN  [headers |->
                    MapSet(MapSet(h1, "Content-Encoding", S_gzip),
                           "Content-Length", Itoa(Len(zipped))),
                  bodyToWrite |-> MkBytes(zipped)]
        ELSE [headers |-> h1, bodyToWrite |-> body]

\* A ChunkedFraming that also announces gzip.
ChunkedFramingGzip(headers, body) ==
  [headers |-> MapSet(MapDelete(MapSet(headers, "Transfer-Encoding", S_chunked),
                                "Content-Length"),
                      "Content-Encoding", S_gzip),
   bodyToWrite |-> body]

\* A ChunkedFraming that keeps the Content-Length the handler set.
ChunkedFramingKeepLength(headers, body) ==
  [headers |-> MapSet(headers, "Transfer-Encoding", S_chunked),
   bodyToWrite |-> body]

\* The framing of a response with a body stream.
ChunkedFraming(headers, body) ==
  [headers |-> MapDelete(MapSet(headers, "Transfer-Encoding", S_chunked),
                         "Content-Length"),
   bodyToWrite |-> body]

\* respond up to its first write: the headers and the body it is to write.
Prepare(reqHeaders, resp) ==
  LET h0 == IF resp.Headers.isNil THEN EmptyMap ELSE resp.Headers.m
      h1 == SetConnection(h0, reqHeaders, resp.Status)
      isChunked == ~resp.BodyReader.isNil
      framing == IF isChunked THEN ChunkedFraming(h1, resp.Body)
                 ELSE FixedFraming(h1, reqHeaders, resp.Body)
  IN  [isChunked |-> isChunked,
       headers |-> framing.headers,
       bodyToWrite |-> framing.bodyToWrite,
       statusLine |-> rspMap(resp.Status)]

\* fmt.Sprintf("%s: %s", k, v)
headerLine(k, v) == <<k, ":", " ">> \o v

\* respond(conn, req, r) is called and runs up to its first conn.Write.
RespondBegin(reqHeaders, resp) ==
  /\ pc = "idle"
  /\ LET p == Prepare(reqHeaders, resp)
     IN  /\ call' = [made |-> TRUE, req |-> [Headers |-> reqHeaders], r |-> resp]
         /\ rsp' = [made |-> TRUE, Status |-> resp.Status, Headers |-> p.headers,
                  Body |-> resp.Body, BodyReader |-> resp.BodyReader]
         /\ loc' = [made |-> TRUE, isChunked |-> p.isChunked,
                    bodyToWrite |-> p.bodyToWrite, statusLine |-> p.statusLine,
                    todo |-> DOMAIN p.headers, stream |-> resp.BodyReader.b,
                    n |-> 0, err |-> "nil", reads |-> 0]
  /\ conn' = <<>>
  /\ pc' = "statusLine"

\* respond called on its own.
RespondCall(reqHeaders, resp) ==
  /\ RespondBegin(reqHeaders, resp)
  /\ UNCHANGED <<treeVars, serverVars>>

\* An AfterHeaders that writes a Body there is before it turns to the stream.
AfterHeadersBodyFirst ==
  IF ~loc.bodyToWrite.isNil THEN "body"
  ELSE IF loc.isChunked THEN "read"
  ELSE "done"

\* Where respond goes after the blank line that ends the header block.
AfterHeaders ==
  IF loc.isChunked THEN "read"
  ELSE IF ~loc.bodyToWrite.isNil THEN "body"
  ELSE "done"

\* An AfterChunk that writes the terminator after a failed read as well.
AfterChunkAlwaysTerminates(err) ==
  IF err = "nil" THEN "read" ELSE "zero"

\* An AfterChunk that ends the loop at end-of-stream with no terminator.
AfterChunkNoTerminator(err) ==
  IF err = "nil" THEN "read" ELSE "done"

\* Where the chunk loop goes once the chunk of a read, if any, is written.
AfterChunk(err) ==
  IF err = "nil" THEN "read"
  ELSE IF err = "EOF" THEN "zero"
  ELSE "done"

\* One conn.Write of bytes, what for, that succeeds and leaves respond at next.
Written(what, key, bytes, next) ==
  /\ conn' = Append(conn, [what |-> what, key |-> key, bytes |-> bytes,
                           ok |-> TRUE])
  /\ pc' = next

\* What respond writes next, and where it is afterwards.
WriteOk ==
  \/ /\ pc = "statusLine"
     /\ Written("statusLine", "", loc.statusLine, "statusCRLF")
     /\ UNCHANGED loc
  \/ /\ pc = "statusCRLF"
     /\ Written("crlf", "", CRLF, "header")
     /\ UNCHANGED loc
  \/ /\ pc = "header"
     /\ \E k \in loc.todo :
          /\ Written("header", k, headerLine(k, rsp.Headers[k]), "headerCRLF")
          /\ loc' = [loc EXCEPT !.todo = @ \ {k}]
  \/ /\ pc = "headerCRLF"
     /\ Written("crlf", "", CRLF, "header")
     /\ UNCHANGED loc
  \/ /\ pc = "header"
     /\ loc.todo = {}
     /\ Written("blank", "", CRLF, AfterHeaders)
     /\ UNCHANGED loc
  \/ /\ pc = "body"
     /\ Written("body", "", loc.bodyToWrite.b, "done")
     /\ UNCHANGED loc
  \/ /\ pc = "chunkSize"
     /\ Written("chunkSize", "", FormatInt(loc.n, 16), "chunkSizeCRLF")
     /\ UNCHANGED loc
  \/ /\ pc = "chunkSizeCRLF"
     /\ Written("crlf", "", CRLF, "chunkData")
     /\ UNCHANGED loc
  \/ /\ pc = "chunkData"
     /\ Written("chunkData", "", SubSeq(loc.stream, 1, loc.n), "chunkDataCRLF")
     /\ loc' = [loc EXCEPT !.stream = SubSeq(@, loc.n + 1, Len(@))]
  \/ /\ pc = "chunkDataCRLF"
     /\ Written("crlf", "", CRLF, AfterChunk(loc.err))
     /\ UNCHANGED loc
  \/ /\ pc = "zero"
     /\ Written("zero", "", S_0, "zeroCRLF")
     /\ UNCHANGED loc
  \/ /\ pc = "zeroCRLF"
     /\ Written("crlf", "", CRLF, "finalCRLF")
     /\ UNCHANGED loc
  \/ /\ pc = "finalCRLF"
     /\ Written("crlf", "", CRLF, "done")
     /\ UNCHANGED loc

WritePoints ==
  {"statusLine", "statusCRLF", "header", "headerCRLF", "body", "chunkSize",
   "chunkSizeCRLF", "chunkData", "chunkDataCRLF", "zero", "zeroCRLF",
   "finalCRLF"}

\* A conn.Write that succeeds.
ConnWrite ==
  /\ WriteOk
  /\ UNCHANGED <<call, rsp>>
  /\ UNCHANGED <<treeVars, serverVars>>

\* A failed conn.Write after which respond goes on to what comes next.
ConnWriteFailsGoesOn ==
  /\ pc \in WritePoints
  /\ conn' = Append(conn, [what |-> pc, key |-> "", bytes |-> <<>>,
                           ok |-> FALSE])
  /\ UNCHANGED <<call, rsp, loc, pc>>
  /\ UNCHANGED <<treeVars, serverVars>>

\* A conn.Write that returns an error: respond logs it and returns.
ConnWriteFails ==
  /\ pc \in WritePoints
  /\ conn' = Append(conn, [what |-> pc, key |-> "", bytes |-> <<>>,
                           ok |-> FALSE])
  /\ pc' = "done"
  /\ UNCHANGED <<call, rsp, loc>>
  /\ UNCHANGED <<treeVars, serverVars>>

\* r.BodyReader.Read(buf) returns n bytes and err.  The bytes stay in
\* loc.stream until the chunk is written.
BodyRead(n, err) ==
  /\ pc = "read"
  /\ loc.reads < MaxReads
  /\ n <= Len(loc.stream)
  /\ n <= BufSize
  /\ err = "EOF" => n = Len(loc.stream)
  /\ loc' = [loc EXCEPT !.n = n, !.err = err, !.reads = @ + 1]
  /\ pc' = IF n > 0 THEN "chunkSize" ELSE AfterChunk(err)
  /\ UNCHANGED <<call, rsp, conn>>
  /\ UNCHANGED <<treeVars, serverVars>>

\* respond has returned; the next call may be made.
RespondReturn ==
  /\ pc = "done"
  /\ call' = [made |-> FALSE]
  /\ rsp' = [made |-> FALSE]
  /\ loc' = [made |-> FALSE]
  /\ conn' = <<>>
  /\ pc' = "idle"
  /\ UNCHANGED <<treeVars, serverVars>>

ReadErrors == {"nil", "EOF", "error"}

\* The requests and responses respond is called with.
RequestHeaderMaps ==
  {[k \in {} |-> EmptyString]}
    \cup {[k \in {"Connection"} |-> v] : v \in {S_close, S_Close, S_keepalive}}
    \cup {[k \in {"Accept-Encoding"} |-> v] : v \in {S_gzip, S_br_gzip}}
    \cup {[k \in {"Connection", "Accept-Encoding"} |->
             IF k = "Connection" THEN S_close ELSE S_br]}

ResponseHeaderMaps ==
  {NilMap, MkMap(EmptyMap)}
    \cup {MkMap([k \in {"Connection"} |-> v]) : v \in {S_close, S_keepalive}}
    \cup {MkMap([k \in {"Connection", "Content-Length"} |->
                   IF k = "Connection" THEN S_keepalive ELSE <<"7">>])}

Bodies == {NilBytes, MkBytes(<<>>), MkBytes(<<"x">>)}

BodyReaders == {NilBytes, MkBytes(<<"y", "z">>)}

\* Responses without a body stream, and responses with one.
Responses ==
  [Status : Statuses, Headers : ResponseHeaderMaps, Body : Bodies,
   BodyReader : {NilBytes}]
    \cup [Status : Statuses, Headers : ResponseHeaderMaps,
          Body : Bodies \ {MkBytes(<<>>)}, BodyReader : BodyReaders \ {NilBytes}]

RespondInit ==
  /\ tree = NewSegmentTree
  /\ routes = EmptyMap
  /\ ninserts = 0
  /\ res = NoSearch
  /\ searches = NoSearches
  /\ RespondIdle
  /\ ServerIdle

RespondNext ==
  \/ \E h \in RequestHeaderMaps, resp \in Responses : RespondCall(h, resp)
  \/ ConnWrite
  \/ ConnWriteFails
  \/ \E n \in 0..MaxRead, err \in ReadErrors : BodyRead(n, err)
  \/ RespondReturn

SpecRespond == RespondInit /\ [][RespondNext]_vars

\* Header maps of handlers that name the framing themselves.
FramingHeaderMaps ==
  {MkMap(EmptyMap),
   MkMap([k \in {"Content-Length"} |-> <<"7">>]),
   MkMap([k \in {"Transfer-Encoding"} |-> S_chunked]),
   MkMap([k \in {"Transfer-Encoding", "Content-Length"} |->
            IF k = "Transfer-Encoding" THEN S_chunked ELSE <<"7">>])}

FramingResponses ==
  [Status : {StatusOK, StatusNotFound}, Headers : FramingHeaderMaps,
   Body : {NilBytes, MkBytes(<<"x">>)}, BodyReader : BodyReaders]

FramingNext ==
  \/ \E h \in {EmptyMap, [k \in {"Accept-Encoding"} |-> S_gzip]},
        resp \in FramingResponses : RespondCall(h, resp)
  \/ ConnWrite
  \/ ConnWriteFails
  \/ \E n \in 0..MaxRead, err \in ReadErrors : BodyRead(n, err)
  \/ RespondReturn

\* respond for handlers that set Content-Length or Transfer-Encoding.
SpecFraming == RespondInit /\ [][FramingNext]_vars

(***************************************************************************)
(* The request parser: parseRequest(conn) of app/server.  The client has   *)
(* sent its bytes and closed its side, so that a read past them gets       *)
(* io.EOF.                                                                 *)
(***************************************************************************)
S_HTTP11 == <<"HTTP/1.1">>

S_POST == <<"POST">>

LineEnd == {"\r", "\n"}

\* The characters of the requests here that unicode.IsSpace holds for.
Whitespace == {" ", "\t", "\r", "\n"}

\* Where the first c of bytes is; 0 when there is none.
IndexByte(bytes, c) ==
  IF \E i \in DOMAIN bytes : bytes[i] = c
    THEN CHOOSE i \in DOMAIN bytes :
           bytes[i] = c /\ \A j \in 1..(i - 1) : bytes[j] # c
    ELSE 0

\* A ReadBytes for which the end of the input ends a line as '\n' does.
ReadBytesToEnd(bytes) ==
  LET at == IndexByte(bytes, "\n")
  IN  IF at = 0 THEN [line |-> bytes, rest |-> <<>>, err |-> FALSE]
      ELSE [line |-> SubSeq(bytes, 1, at),
            rest |-> SubSeq(bytes, at + 1, Len(bytes)), err |-> FALSE]

\* reader.ReadBytes('\n'): the bytes up to and including the first '\n', or
\* all the bytes and an error when there is none.
ReadBytes(bytes) ==
  LET at == IndexByte(bytes, "\n")
  IN  IF at = 0 THEN [line |-> bytes, rest |-> <<>>, err |-> TRUE]
      ELSE [line |-> SubSeq(bytes, 1, at),
            rest |-> SubSeq(bytes, at + 1, Len(bytes)), err |-> FALSE]

RECURSIVE TrimRight(_, _)
\* bytes.TrimRight(s, cutset)
TrimRight(s, cutset) ==
  IF s # <<>> /\ s[Len(s)] \in cutset
    THEN TrimRight(SubSeq(s, 1, Len(s) - 1), cutset)
    ELSE s

RECURSIVE TrimLeft(_, _)
TrimLeft(s, cutset) ==
  IF s # <<>> /\ s[1] \in cutset THEN TrimLeft(Tail(s), cutset) ELSE s

\* strings.TrimSpace(s)
TrimSpace(s) == TrimRight(TrimLeft(s, Whitespace), Whitespace)

RECURSIVE Fields(_, _, _)
\* A SplitN that cuts at every separator and keeps no empty part, as
\* splitting into whitespace-separated tokens does.
Fields(s, sep, n) ==
  LET at == IndexByte(s, sep)
  IN  IF s = <<>> THEN <<>>
      ELSE IF at = 0 THEN <<s>>
      ELSE IF at = 1 THEN Fields(Tail(s), sep, n)
      ELSE <<SubSeq(s, 1, at - 1)>>
             \o Fields(SubSeq(s, at + 1, Len(s)), sep, n)

RECURSIVE SplitN(_, _, _)
\* bytes.SplitN(s, sep, n) for a one-byte sep and n > 0: at most n parts, the
\* last one the unsplit rest.
SplitN(s, sep, n) ==
  LET at == IndexByte(s, sep)
  IN  IF n = 1 \/ at = 0 THEN <<s>>
      ELSE <<SubSeq(s, 1, at - 1)>>
             \o SplitN(SubSeq(s, at + 1, Len(s)), sep, n - 1)

\* string(key) of a header name: a single symbol, or "" for no name.
HeaderKey(name) == IF name = <<>> THEN "" ELSE name[1]

\* types.Request{Headers: make(map[string]string), Body: nil}
NewRequest ==
  [Method |-> <<>>, Target |-> <<>>, Version |-> <<>>, Headers |-> EmptyMap,
   Body |-> NilBytes, Params |-> NilMap]

\* parseRequest returns result and the error e.
ParseReturns(req, e) ==
  /\ result' = [made |-> TRUE, req |-> req, err |-> e]
  /\ hc' = [hc EXCEPT !.pc = IF e = "nil" THEN "parsed" ELSE "failed"]

\* parseRequest goes on, at next.
ParseGoesOn(req, next) ==
  /\ result' = [made |-> TRUE, req |-> req, err |-> "nil"]
  /\ hc' = [hc EXCEPT !.pc = next]

\* The request line is read, checked and split.
ReadRequestLine ==
  /\ hc.pc = "requestLine"
  /\ LET rb == ReadBytes(reader)
         requestLineBytes == TrimRight(rb.line, LineEnd)
         requestLineParts == SplitN(requestLineBytes, " ", 3)
     IN  /\ reader' = rb.rest
         /\ IF rb.err
              THEN ParseReturns(result.req, "error reading request line")
            ELSE IF Len(requestLineBytes) = 0
              THEN ParseReturns(result.req, "empty request line")
            ELSE IF Len(requestLineParts) # 3
              THEN ParseReturns(result.req, "malformed request line")
            ELSE LET req == [result.req EXCEPT
                               !.Method = requestLineParts[1],
                               !.Target = requestLineParts[2],
                               !.Version = requestLineParts[3]]
                 IN  IF req.Version # S_HTTP11
                       THEN ParseReturns(req, "unsupported HTTP version")
                       ELSE ParseGoesOn(req, "headers")
  /\ UNCHANGED <<treeVars, respondVars>>

\* A ReadHeaderLine that keeps the first value of a repeated header name.
StoreHeaderFirst(headers, key, value) ==
  IF key \in DOMAIN headers THEN headers ELSE MapSet(headers, key, value)

\* result.Headers[key] = value
StoreHeader(headers, key, value) == MapSet(headers, key, value)

\* One round of the header loop: a line is read; the empty line ends the
\* loop, a line without ':' is skipped, any other line sets a header.
ReadHeaderLine ==
  /\ hc.pc = "headers"
  /\ LET rb == ReadBytes(reader)
         headerLineBytes == TrimRight(rb.line, LineEnd)
         headerParts == SplitN(headerLineBytes, ":", 2)
     IN  /\ reader' = rb.rest
         /\ IF rb.err
              THEN ParseReturns(result.req, "error reading header line")
            ELSE IF Len(headerLineBytes) = 0
              THEN ParseGoesOn(result.req, "body")
            ELSE IF Len(headerParts) # 2
              THEN ParseGoesOn(result.req, "headers")
            ELSE LET key == HeaderKey(TrimSpace(headerParts[1]))
                     value == TrimSpace(headerParts[2])
                 IN  ParseGoesOn([result.req EXCEPT
                                    !.Headers = StoreHeader(@, key, value)],
                                 "headers")
  /\ UNCHANGED <<treeVars, respondVars>>

\* A body for every method.
MayCarryBodyAny(method) == TRUE

\* result.Method == "POST"
MayCarryBody(method) == method = S_POST

\* The body is read, for a POST with a Content-Length header.  A negative
\* length makes make([]byte, contentLength) panic.
ReadBody ==
  /\ hc.pc = "body"
  /\ IF MayCarryBody(result.req.Method)
          /\ "Content-Length" \in DOMAIN result.req.Headers
       THEN LET contentLength == Atoi(result.req.Headers["Content-Length"])
            IN  IF contentLength.err
                  THEN /\ ParseReturns(result.req, "invalid Content-Length")
                       /\ UNCHANGED reader
                ELSE IF contentLength.n < 0
                  THEN /\ hc' = [hc EXCEPT !.pc = "panic"]
                       /\ UNCHANGED <<reader, result>>
                ELSE IF Len(reader) < contentLength.n
                  THEN /\ ParseReturns(result.req, "error reading request body")
                       /\ reader' = <<>>
                ELSE /\ ParseReturns(
                          [result.req EXCEPT
                             !.Body = MkBytes(SubSeq(reader, 1, contentLength.n))],
                          "nil")
                     /\ reader' = SubSeq(reader, contentLength.n + 1, Len(reader))
       ELSE /\ ParseReturns(result.req, "nil")
            /\ UNCHANGED reader
  /\ UNCHANGED <<treeVars, respondVars>>

\* No connection is being handled.
Listening == hc.pc \in {"idle", "closed"}

\* l.Accept() returns a connection on which the client has sent input, and
\* handleConnection calls parseRequest.
Accept(input) ==
  /\ Listening
  /\ reader' = input
  /\ result' = [made |-> TRUE, req |-> NewRequest, err |-> "nil"]
  /\ hc' = [pc |-> "requestLine", input |-> input, invoked |-> <<>>,
            given |-> [made |-> FALSE], response |-> [made |-> FALSE],
            responds |-> 0, closed |-> FALSE]
  /\ res' = NoSearch
  /\ call' = [made |-> FALSE]
  /\ rsp' = [made |-> FALSE]
  /\ loc' = [made |-> FALSE]
  /\ conn' = <<>>
  /\ pc' = "idle"
  /\ UNCHANGED <<tree, routes, ninserts, searches>>

\* The lines a client sends.
RequestLines ==
  {<<>>,
   <<"\r">>,
   <<"GET", " ", "/", "a">>,
   <<"GET", " ", "/", "a", " ", "HTTP/1.1">>,
   <<"POST", " ", "/", "a", " ", "HTTP/1.1">>,
   <<"BREW", " ", "/", "a", " ", "HTTP/1.1">>,
   <<"GET", " ", "/", "a", " ", "HTTP/1.1", " ", "extra">>,
   <<"GET", " ", " ", "/", "a", " ", "HTTP/1.1">>,
   <<"GET", " ", "/", "a", " ", "HTTP/1.0">>}

HeaderLines ==
  {<<"Host", ":", " ", "x">>,
   <<" ", "Host", "\t", ":", " ", " ", "y", " ">>,
   <<"Host", " ", "x">>,
   <<"X", ":", "a", ":", "b">>,
   <<"Content-Length", ":", " ", "1">>,
   <<"Content-Length", ":", " ", "a">>,
   <<"Content-Length", ":", " ", "-", "1">>}

\* What follows the header lines: nothing, or the empty line and then bytes.
AfterBlank == {<<>>, <<"h">>, <<"h", "i">>, <<"Host", ":", " ", "z", "\n">>}

RECURSIVE HeaderBlocks(_, _)
\* Up to n header lines, each ended by eol.
HeaderBlocks(n, eol) ==
  IF n = 0 THEN {<<>>}
  ELSE HeaderBlocks(n - 1, eol)
         \cup {line \o eol \o block :
                 line \in HeaderLines, block \in HeaderBlocks(n - 1, eol)}

LineEnds == {CRLF, <<"\n">>}

\* Requests of up to n header lines: cut short before the empty line, or
\* with the empty line and what follows it.
ParseInputs(n) ==
  UNION {
    {line \o eol \o block : line \in RequestLines,
                             block \in HeaderBlocks(n, eol)}
      \cup {line \o eol \o block \o eol \o after :
              line \in RequestLines,
              block \in HeaderBlocks(n, eol),
              after \in AfterBlank}
    : eol \in LineEnds}
    \cup {<<>>, <<"GET", " ", "/", "a", " ", "HTTP/1.1">>}

ParseNext ==
  \/ Listening /\ \E input \in ParseInputs(MaxHeaderLines) : Accept(input)
  \/ ReadRequestLine
  \/ ReadHeaderLine
  \/ ReadBody

\* parseRequest on what a client may send.
SpecParse == TreeInit /\ [][ParseNext]_vars

(***************************************************************************)
(* The connection driver, Server.handleConnection of app/server, with      *)
(* treeRouter.HandleRequest of app/router as the server's handler.         *)
(***************************************************************************)
S_404 == <<"4", "0", "4", " ", "N", "o", "t", " ", "F", "o", "u", "n", "d">>

S_text == <<"text/plain">>

\* types.Method(string(requestLineParts[0])): the methods routes are
\* registered for, and one symbol for every other string.
MethodOf(bytes) ==
  IF \E m \in Methods : bytes = <<m>> THEN bytes[1] ELSE "other"

\* prepareResponse(r); the Date value is the time of the call.
prepareResponse ==
  [Status |-> StatusOK,
   Headers |-> MkMap([k \in {"Server", "Date"} |->
                        IF k = "Server" THEN <<"go-server/0.1">>
                        ELSE <<"now">>]),
   Body |-> NilBytes, BodyReader |-> NilBytes]

\* A prepared response sent as it is.
errorResUnset == prepareResponse

\* The response handleConnection sends when parseRequest fails.
errorRes ==
  [prepareResponse EXCEPT
     !.Status = StatusBadRequest,
     !.Headers = MkMap(MapSet(@.m, "Connection", S_close))]

\* handleConnection with err != nil: respond is called with a request that
\* asks to close and the 400 response.
RespondBadRequest ==
  /\ hc.pc = "failed"
  /\ RespondBegin([k \in {"Connection"} |-> S_close], errorRes)
  /\ hc' = [hc EXCEPT !.pc = "respond", !.responds = @ + 1]
  /\ UNCHANGED <<treeVars, reader, result>>

\* A response for no match that is sent with 200.
notFoundAsOK ==
  [Status |-> StatusOK,
   Headers |-> MkMap([k \in {"Content-Type"} |-> S_text]),
   Body |-> MkBytes(S_404), BodyReader |-> NilBytes]

\* The response HandleRequest returns when Search finds no route.
notFoundResponse ==
  [Status |-> StatusNotFound,
   Headers |-> MkMap([k \in {"Content-Type"} |-> S_text]),
   Body |-> MkBytes(S_404), BodyReader |-> NilBytes]

\* A response made with a nil header map.
newResponseNoHeaders ==
  [Status |-> StatusOK, Headers |-> NilMap, Body |-> NilBytes,
   BodyReader |-> NilBytes]

\* response := types.Response{Status: types.StatusOK,
\*                             Headers: make(map[string]string)}
newResponse ==
  [Status |-> StatusOK, Headers |-> MkMap(EmptyMap), Body |-> NilBytes,
   BodyReader |-> NilBytes]

\* res.Headers[k] = v in a handler.
SetHeader(response, k, v) ==
  [response EXCEPT !.Headers = MkMap(MapSet(@.m, k, v))]

\* What a handler may leave in the response it is given: a body, or another
\* status with or without a header of its own.
HandlerResponses(response) ==
  {[response EXCEPT !.Body = MkBytes(<<"x">>)],
   SetHeader([response EXCEPT !.Status = StatusCreated],
             "Connection", S_keepalive),
   [response EXCEPT !.Status = StatusInternalServerError]}

\* The echo handler: res.Body = []byte(req.Params["msg"]).
echo(response, params) ==
  [response EXCEPT !.Status = StatusOK,
                   !.Body = MkBytes(MapGet(params.m, S_msg))]

\* The echo handler that also sets Content-Type and Content-Length, as the
\* handlers of main do.
echoLength(response, params) ==
  SetHeader(SetHeader(echo(response, params), "Content-Type", S_text),
            "Content-Length", Itoa(Len(MapGet(params.m, S_msg))))

\* handler(ctx, req, &response): what the handler leaves in the response it
\* was given.
Handled(handler, response, params) ==
  CASE handler = "echo" -> {echo(response, params)}
    [] handler = "echoLength" -> {echoLength(response, params)}
    [] OTHER -> HandlerResponses(response)

\* s.handler(ctx, req), which is r.HandleRequest: Search, then either the
\* 404 response or the response the route's handler fills in.
HandleRequest ==
  /\ hc.pc = "parsed"
  /\ \E r \in Search(tree, MethodOf(result.req.Method), result.req.Target) :
       /\ res' = [called |-> TRUE, method |-> MethodOf(result.req.Method),
                  path |-> result.req.Target, handler |-> r.handler,
                  params |-> r.params, found |-> r.found]
       /\ IF ~r.found
            THEN /\ hc' = [hc EXCEPT !.pc = "handled",
                                     !.response = notFoundResponse]
                 /\ UNCHANGED result
            ELSE \E response \in Handled(r.handler, newResponse, r.params) :
                   /\ hc' = [hc EXCEPT !.pc = "handled",
                                       !.invoked = Append(@, r.handler),
                                       !.given = newResponse,
                                       !.response = response]
                   /\ result' = [result EXCEPT !.req.Params = r.params]
  /\ UNCHANGED <<tree, routes, ninserts, searches, reader>>
  /\ UNCHANGED respondVars

\* handleConnection calls respond(conn, req, res) with the handler's response.
Respond ==
  /\ hc.pc = "handled"
  /\ RespondBegin(result.req.Headers, hc.response)
  /\ hc' = [hc EXCEPT !.pc = "respond", !.responds = @ + 1]
  /\ UNCHANGED <<tree, routes, ninserts, res, searches, reader, result>>

\* respond has returned; the deferred conn.Close() runs.
Close ==
  /\ hc.pc = "respond"
  /\ pc = "done"
  /\ hc' = [hc EXCEPT !.pc = "closed", !.closed = TRUE]
  /\ UNCHANGED <<treeVars, respondVars, reader, result>>

\* The panic unwinds handleConnection: the deferred conn.Close() runs and
\* the process ends.
Crash ==
  /\ hc.pc = "panic"
  /\ hc' = [hc EXCEPT !.pc = "crashed", !.closed = TRUE]
  /\ UNCHANGED <<treeVars, respondVars, reader, result>>

\* r.Register(method, path, handler), before the server listens.
Register(method, path, handler) ==
  /\ hc.pc = "idle"
  /\ InsertCall(MaxRoutes, method, path, handler)

ServePatterns == {<<"/", "a">>, <<"/", ":", "a">>}

RequestLine(method, target) ==
  <<method, " ">> \o target \o <<" ", "HTTP/1.1">> \o CRLF

ServeInputs ==
  {<<>>,
   CRLF,
   <<"GET", " ", "/", "a", " ", "HTTP/1.1">>,
   RequestLine("GET", <<"/", "a">>) \o <<"Host", ":", " ", "x">>,
   <<"GET", " ", "/", "a">> \o CRLF \o CRLF,
   <<"GET", " ", "/", "a", " ", "HTTP/1.1", " ", "extra">> \o CRLF \o CRLF,
   <<"GET", " ", "/", "a", " ", "HTTP/1.0">> \o CRLF \o CRLF,
   RequestLine("GET", <<"/", "a">>),
   RequestLine("GET", <<"/", "a">>) \o CRLF,
   RequestLine("GET", <<"/", "b">>) \o CRLF,
   RequestLine("GET", <<"/", "a", "/", "b">>)
     \o <<"Connection", ":", " ">> \o S_keepalive \o CRLF \o CRLF,
   RequestLine("GET", <<"/", "a">>)
     \o <<"Connection", ":", " ">> \o S_close \o CRLF \o CRLF,
   RequestLine("PUT", <<"/", "a">>) \o CRLF,
   RequestLine("POST", <<"/", "a">>)
     \o <<"Content-Length", ":", " ", "1">> \o CRLF \o CRLF \o <<"h">>,
   RequestLine("POST", <<"/", "a">>)
     \o <<"Content-Length", ":", " ", "3">> \o CRLF \o CRLF \o <<"h">>,
   RequestLine("POST", <<"/", "a">>)
     \o <<"Content-Length", ":", " ", "a">> \o CRLF \o CRLF \o <<"h">>,
   RequestLine("POST", <<"/", "a">>)
     \o <<"Content-Length", ":", " ", "-", "1">> \o CRLF \o CRLF \o <<"h">>}

ServeNext ==
  \/ \E m \in Methods, p \in ServePatterns, h \in Handlers : Register(m, p, h)
  \/ Listening /\ \E input \in ServeInputs : Accept(input)
  \/ ReadRequestLine
  \/ ReadHeaderLine
  \/ ReadBody
  \/ RespondBadRequest
  \/ HandleRequest
  \/ Respond
  \/ ConnWrite
  \/ ConnWriteFails
  \/ Close
  \/ Crash

\* The server: routes are registered, then connections are handled.
SpecServe == TreeInit /\ [][ServeNext]_vars

\* A step of the goroutine that handles the connection.
HandleConnectionStep ==
  \/ ReadRequestLine
  \/ ReadHeaderLine
  \/ ReadBody
  \/ RespondBadRequest
  \/ HandleRequest
  \/ Respond
  \/ ConnWrite
  \/ ConnWriteFails
  \/ Close
  \/ Crash

\* Requests for each way handleConnection ends: a handler's response, a
\* 404, a 400 for a request that does not parse, and a panic.
ConnectionInputs ==
  {<<>>,
   <<"GET", " ", "/", "a">> \o CRLF \o CRLF,
   RequestLine("GET", <<"/", "a">>) \o CRLF,
   RequestLine("GET", <<"/", "b">>) \o CRLF,
   RequestLine("GET", <<"/", "a">>)
     \o <<"Connection", ":", " ">> \o S_close \o CRLF \o CRLF,
   RequestLine("POST", <<"/", "a">>)
     \o <<"Content-Length", ":", " ", "1">> \o CRLF \o CRLF \o <<"h">>,
   RequestLine("POST", <<"/", "a">>)
     \o <<"Content-Length", ":", " ", "-", "1">> \o CRLF \o CRLF \o <<"h">>}

ConnectionNext ==
  \/ \E m \in Methods : Register(m, <<"/", "a">>, "h1")
  \/ Listening /\ \E input \in ConnectionInputs : Accept(input)
  \/ HandleConnectionStep

\* The server whose goroutine goes on as long as it has a step to take: its
\* reads and writes return.
SpecConnection ==
  TreeInit /\ [][ConnectionNext]_vars /\ WF_vars(HandleConnectionStep)

(***************************************************************************)
(* The server with an echo route: a handler at GET /echo/:msg that writes  *)
(* params["msg"] as the body.                                              *)
(***************************************************************************)
Pat_echo == Slash(<<S_echo, <<":">> \o S_msg>>)

\* The routes a run may register: the echo route with either echo handler,
\* and routes that do not take a request for /echo/<s>.
EchoRoutes ==
  {<<"GET", Pat_echo, "echo">>,
   <<"GET", Pat_echo, "echoLength">>,
   <<"POST", Pat_echo, "h1">>,
   <<"GET", Slash(<<S_echo, <<":">> \o S_message, S_v1>>), "h1">>,
   <<"GET", <<"/">>, "h2">>}

\* The texts requested from the echo route: "h", "hello", ":msg" and one of
\* ten bytes.
EchoTexts ==
  {<<"h">>, S_hello, <<":">> \o S_msg,
   <<"0", "1", "2", "3", "4", "5", "6", "7", "8", "9">>}

S_Host == <<"Host", ":", " ", "x">>

\* "GET /echo/<s> HTTP/1.1" with a Host header and no Accept-Encoding, alone
\* or with a Connection header too.
EchoRequestsOf(s) ==
  {RequestLine("GET", Slash(<<S_echo, s>>)) \o S_Host \o CRLF \o CRLF,
   RequestLine("GET", Slash(<<S_echo, s>>)) \o S_Host \o CRLF
     \o <<"Connection", ":", " ">> \o S_close \o CRLF \o CRLF}

\* The requests a client sends: those for the echo route and a few that are
\* not of that form.
EchoInputs ==
  UNION {EchoRequestsOf(s) : s \in EchoTexts}
  \cup
  {RequestLine("GET", Slash(<<S_echo, <<>>>>)) \o S_Host \o CRLF \o CRLF,
   RequestLine("GET", Slash(<<S_echo, <<"h">>, S_v1>>)) \o S_Host \o CRLF \o CRLF,
   RequestLine("POST", Slash(<<S_echo, <<"h">>>>)) \o S_Host \o CRLF \o CRLF,
   RequestLine("GET", Slash(<<S_echo, <<"h">>>>)) \o S_Host \o CRLF
     \o <<"Accept-Encoding", ":", " ">> \o S_gzip \o CRLF \o CRLF,
   RequestLine("GET", Slash(<<S_echo, <<"h">>>>)) \o S_Host}

RegisterEcho(route) ==
  /\ hc.pc = "idle"
  /\ InsertCall(MaxEchoRoutes, route[1], route[2], route[3])

EchoNext ==
  \/ \E route \in EchoRoutes : RegisterEcho(route)
  \/ Listening /\ \E input \in EchoInputs : Accept(input)
  \/ ReadRequestLine
  \/ ReadHeaderLine
  \/ ReadBody
  \/ RespondBadRequest
  \/ HandleRequest
  \/ Respond
  \/ ConnWrite
  \/ ConnWriteFails
  \/ Close

\* The server with the echo route among its routes.
SpecEcho == TreeInit /\ [][EchoNext]_vars

(***************************************************************************)
(* What the routes registered so far say about a path, computed from the   *)
(* recorded Insert calls and not from the trie.                            *)
(***************************************************************************)
\* The handler currently registered for (method, pattern).
Current(method, pattern) ==
  LET given == routes[<<method, pattern>>] IN given[Len(given)]

\* The patterns registered under method.
Registered(method) == {r[2] : r \in {x \in DOMAIN routes : x[1] = method}}

\* pattern and path have as many segments, literal segments are equal and a
\* parameter segment stands against a non-empty segment.
Matches(pattern, path) ==
  LET ps == Split(pattern)
      qs == Split(path)
  IN  /\ Len(ps) = Len(qs)
      /\ \A i \in 1..Len(ps) :
           IF HasPrefix(ps[i]) THEN qs[i] # EmptyString ELSE ps[i] = qs[i]

\* The positions of pattern that capture parameter name.
PositionsOf(pattern, name) ==
  LET ps == Split(pattern)
  IN  {i \in 1..Len(ps) : HasPrefix(ps[i]) /\ TrimPrefix(ps[i]) = name}

ParamNames(pattern) ==
  LET ps == Split(pattern)
  IN  {TrimPrefix(ps[i]) : i \in {j \in 1..Len(ps) : HasPrefix(ps[j])}}

\* The text of path at the last position of pattern that captures name.
LastText(pattern, path, name) ==
  LET pos == PositionsOf(pattern, name)
      last == CHOOSE i \in pos : \A j \in pos : j <= i
  IN  Split(path)[last]

\* The params a match of pattern against path is to give.
Bindings(pattern, path) ==
  [name \in ParamNames(pattern) |-> LastText(pattern, path, name)]

\* Every binding of params is a binding of pattern against path.
BoundWithin(params, pattern, path) ==
  \A name \in DOMAIN params :
    /\ name \in ParamNames(pattern)
    /\ params[name] = LastText(pattern, path, name)

\* The patterns registered under the method of res that match its path and
\* hold the handler it returned.
MatchedRoutes ==
  {p \in Registered(res.method) :
     Matches(p, res.path) /\ Current(res.method, p) = res.handler}

\* q takes a literal branch where p takes a parameter branch, after the
\* same branches.
StaticBeats(q, p) ==
  LET ps == Split(p)
      qs == Split(q)
  IN  \E i \in 1..Len(ps) :
        /\ i <= Len(qs)
        /\ \A j \in 1..(i - 1) : ps[j] = qs[j]
        /\ HasPrefix(ps[i])
        /\ ~HasPrefix(qs[i])

Found == res.called /\ res.found

Str_a == <<"a">>

Str_b == <<"b">>

Path_a_a == <<"a", "/", "a">>

Path_a_b == <<"a", "/", "b">>

Pat_a_pa == <<"a", "/", ":", "a">>

\* C1: static precedence.  A found Search returns the handler of a matching
\* route that no other matching route of the method beats by taking a literal
\* branch earlier, and binds nothing outside that route's parameters.  With
\* a/:a and a/a the routes registered for GET, Search(GET, a/a) returns the
\* handler of a/a with empty params and Search(GET, a/b) the handler of a/:a
\* with params {a: "b"}.
C1_StaticPrecedence ==
  /\ Found =>
       \E p \in MatchedRoutes :
         /\ BoundWithin(res.params.m, p, res.path)
         /\ \A q \in Registered(res.method) :
              Matches(q, res.path) => ~StaticBeats(q, p)
  /\ (/\ res.called
      /\ res.method = "GET"
      /\ Registered("GET") = {Pat_a_pa, Path_a_a}) =>
       /\ res.path = Path_a_a =>
            /\ res.found
            /\ res.handler = Current("GET", Path_a_a)
            /\ res.params = MkMap(EmptyMap)
       /\ res.path = Path_a_b =>
            /\ res.found
            /\ res.handler = Current("GET", Pat_a_pa)
            /\ res.params = MkMap([n \in {Str_a} |-> Str_b])

C1_Witness ==
  /\ Found
  /\ res.method = "GET"
  /\ res.path = Path_a_a
  /\ {Pat_a_pa, Path_a_a} \subseteq Registered("GET")
  /\ Current("GET", Path_a_a) = "h2"
  /\ Current("GET", Pat_a_pa) = "h1"
  /\ res.handler = "h2"

\* C2: Search(m, p) finds a handler exactly when a route registered under m
\* matches p, and the handler is the current one of such a route; routes of
\* other methods do not count.
C2_FoundIffRouteMatches ==
  res.called =>
    /\ res.found <=> \E p \in Registered(res.method) : Matches(p, res.path)
    /\ res.found => MatchedRoutes # {}

C2_Witness ==
  /\ res.called
  /\ ~res.found
  /\ res.method = "GET"
  /\ \E p \in Registered("POST") : Matches(p, res.path)

\* No segment of the path starts with ':'.
IsLiteralPath(path) ==
  LET ps == Split(path) IN \A i \in 1..Len(ps) : ~HasPrefix(ps[i])

\* C3: Search(method, literalPath) of a registered literal route returns the
\* handler last registered for it, with an empty non-nil params map.
C3_LiteralRouteResolves ==
  (/\ res.called
   /\ res.path \in Registered(res.method)
   /\ IsLiteralPath(res.path)) =>
    /\ res.found
    /\ res.handler = Current(res.method, res.path)
    /\ res.params = MkMap(EmptyMap)

C3_Witness ==
  /\ Found
  /\ res.path = <<"/">>
  /\ res.path \in Registered(res.method)
  /\ Cardinality(DOMAIN routes) = 2
  /\ res.params = MkMap(EmptyMap)

\* C4: a found Search returns, for a route it matched, every parameter name
\* of that route bound to the text of the path at the name's last position.
C4_ParamsOfMatchedRoute ==
  Found =>
    \E p \in MatchedRoutes : res.params.m = Bindings(p, res.path)

\* C6: a found Search binds no parameter to the empty string, and matched a
\* route whose segment is the literal "" wherever the path's segment is empty;
\* with only a/:a registered, a/ is not found.
C6_EmptySegmentNeverBinds ==
  /\ Found =>
       /\ \A name \in DOMAIN res.params.m : res.params.m[name] # EmptyString
       /\ \E p \in MatchedRoutes :
            \A i \in 1..Len(Split(res.path)) :
              Split(res.path)[i] = EmptyString => Split(p)[i] = EmptyString
  /\ (/\ res.called
      /\ Registered(res.method) = {Pat_a_pa}
      /\ res.path = <<"a", "/">>) => ~res.found

C6_Witness ==
  /\ res.called
  /\ ~res.found
  /\ Registered(res.method) = {Pat_a_pa}
  /\ res.path = <<"a", "/">>

\* A parameter name the pattern captures at more than one position.
Repeated(pattern) ==
  {name \in ParamNames(pattern) : Cardinality(PositionsOf(pattern, name)) > 1}

\* C7: when the matched route captures a name at several positions, params
\* holds that name once, bound to the text at the last of them.
C7_RepeatedNameLastWins ==
  Found =>
    \E p \in MatchedRoutes :
      \A name \in Repeated(p) :
        /\ name \in DOMAIN res.params.m
        /\ res.params.m[name] = LastText(p, res.path, name)

\* Every child pointer of the trie refers to an allocated node.
NoDanglingChild ==
  \A n \in DOMAIN tree :
    /\ \A k \in DOMAIN tree[n].children : tree[n].children[k] \in DOMAIN tree
    /\ \A k \in DOMAIN tree[n].parameterChildren :
         tree[n].parameterChildren[k] \in DOMAIN tree

\* C8: Search returns for every method and path, and a miss is found = false
\* with the nil handler and a nil params map.
C8_MissIsNilNilFalse ==
  /\ ~res.called =>
       /\ NoDanglingChild
       /\ \A m \in Methods, p \in {EmptyString, <<"/">>} :
            Search(tree, m, p) # {}
  /\ res.called =>
       IF res.found
         THEN res.handler \in Handlers /\ ~res.params.isNil
         ELSE res.handler = NilHandler /\ res.params = NilMap

C8_Witness ==
  /\ res.called
  /\ ~res.found
  /\ res.path = <<"/">>
  /\ routes # EmptyMap
  /\ res.params.isNil

\* C9: a found Search matched a route with as many segments as the path; with
\* only a registered, a/ is not found, and with only a/a registered, a is not.
C9_SegmentCountsAgree ==
  /\ Found =>
       \E p \in MatchedRoutes : Len(Split(p)) = Len(Split(res.path))
  /\ (/\ res.called
      /\ Registered(res.method) = {Str_a}
      /\ res.path = <<"a", "/">>) => ~res.found
  /\ (/\ res.called
      /\ Registered(res.method) = {Path_a_a}
      /\ res.path = Str_a) => ~res.found

C9_Witness ==
  /\ res.called
  /\ ~res.found
  /\ Registered(res.method) = {Path_a_a}
  /\ res.path = Str_a

\* The step is Insert(method, path, handler) of a route registered before.
Reinsert(method, path, handler) ==
  /\ <<method, path>> \in DOMAIN routes
  /\ ninserts' = ninserts + 1
  /\ routes' = MapSet(routes, <<method, path>>,
                      Append(routes[<<method, path>>], handler))

\* The node Insert ends at for path.
EndNode(t, path) == InsertWalk(t, RootNode, Split(path))[2]

\* The step adds no node and leaves the handlers of the other methods at the
\* node of path, and what Search returns for them, as they were.
ReinsertTouchesOnlyMethod(method, path) ==
  /\ DOMAIN tree' = DOMAIN tree
  /\ \A m2 \in Methods \ {method} :
       /\ Search(tree', m2, path) = Search(tree, m2, path)
       /\ (m2 \in DOMAIN tree[EndNode(tree, path)].handlers) <=>
            (m2 \in DOMAIN tree'[EndNode(tree, path)].handlers)
       /\ m2 \in DOMAIN tree[EndNode(tree, path)].handlers =>
            tree'[EndNode(tree, path)].handlers[m2] =
              tree[EndNode(tree, path)].handlers[m2]

\* Every result of Search(method, path) after the step is handler, found.
ReturnsOnly(method, path, handler) ==
  \A r \in Search(tree', method, path) : r.found /\ r.handler = handler

\* C5 as stated: Insert(m, path, h2) after Insert(m, path, h1) makes
\* Search(m, path) return h2, adds no node and leaves the other methods'
\* handlers at that node unchanged.
C5_ReinsertMakesSearchReturnIt ==
  [][\A m \in Methods, p \in ShortPatterns, h \in Handlers :
       Reinsert(m, p, h) =>
         /\ ReturnsOnly(m, p, h)
         /\ ReinsertTouchesOnlyMethod(m, p)]_vars

\* C5 amended: Insert(m, path, h2) after Insert(m, path, h1) stores h2 for m
\* at the node of path, so that Search(m, path) returns h2 whenever no other
\* route registered for m matches the text of path; it adds no node and
\* leaves the other methods' handlers at that node unchanged.
C5_ReinsertLastWins ==
  [][\A m \in Methods, p \in ShortPatterns, h \in Handlers :
       Reinsert(m, p, h) =>
         /\ tree'[EndNode(tree, p)].handlers[m] = h
         /\ (\A q \in Registered(m) \ {p} : ~Matches(q, p)) =>
              ReturnsOnly(m, p, h)
         /\ ReinsertTouchesOnlyMethod(m, p)]_vars

C5_Witness ==
  /\ Found
  /\ res.method = "GET"
  /\ res.path = Str_a
  /\ Given(routes, "GET", Str_a) = <<"h1", "h2">>
  /\ <<"POST", Str_a>> \in DOMAIN routes
  /\ res.handler = "h2"

\* The successful writes of the header named key.
HeaderWrites(key) ==
  {i \in DOMAIN conn :
     conn[i].what = "header" /\ conn[i].key = key /\ conn[i].ok}

\* The request asked for the connection to be closed.
CloseRequested ==
  /\ "Connection" \in DOMAIN call.req.Headers
  /\ call.req.Headers["Connection"] = S_close

\* The Connection value C10 states for the call under way.
ExpectedConnection ==
  IF CloseRequested THEN S_close
  ELSE IF call.r.Status \in
            {StatusBadRequest, StatusNotFound, StatusInternalServerError}
    THEN S_close
  ELSE S_keepalive

\* C10: respond emits Connection: close when the request's Connection header
\* is "close" or the status is 400, 404 or 500, and Connection: keep-alive
\* otherwise, whatever Connection value the handler had set; the header is
\* emitted once, before the blank line.
C10_ConnectionHeader ==
  call.made =>
    /\ rsp.Headers["Connection"] = ExpectedConnection
    /\ \A i \in HeaderWrites("Connection") :
         conn[i].bytes = <<"Connection", ":", " ">> \o ExpectedConnection
    /\ Cardinality(HeaderWrites("Connection")) <= 1
    /\ \A j \in DOMAIN conn :
         (conn[j].what = "blank" /\ conn[j].ok) =>
           \E i \in HeaderWrites("Connection") : i < j

C10_Witness ==
  /\ pc = "done"
  /\ \A i \in DOMAIN conn : conn[i].ok
  /\ call.r.Status = StatusInternalServerError
  /\ call.r.Headers = MkMap([k \in {"Connection"} |-> S_keepalive])
  /\ "Connection" \notin DOMAIN call.req.Headers
  /\ \E i \in HeaderWrites("Connection") :
       conn[i].bytes = <<"Connection", ":", " ">> \o S_close

(***************************************************************************)
(* What a client reads off the connection once respond has returned.       *)
(***************************************************************************)
\* Every conn.Write so far succeeded.
AllWritten == \A i \in DOMAIN conn : conn[i].ok

\* respond has returned and every write it made succeeded.
Responded == call.made /\ pc = "done" /\ AllWritten

RECURSIVE Flatten(_)
\* The bytes of a sequence of writes, in order.
Flatten(ws) ==
  IF ws = <<>> THEN <<>> ELSE Head(ws).bytes \o Flatten(Tail(ws))

\* The bytes on the connection after the blank line that ends the headers.
EmittedBody ==
  LET blank == CHOOSE j \in DOMAIN conn : conn[j].what = "blank"
  IN  Flatten(SubSeq(conn, blank + 1, Len(conn)))

\* The value of the only line written for the header named key.
EmittedValue(key) ==
  LET i == CHOOSE j \in HeaderWrites(key) : TRUE
  IN  SubSeq(conn[i].bytes, 4, Len(conn[i].bytes))

\* The header named key was written once; absent, it was never written.
EmittedOnce(key) == Cardinality(HeaderWrites(key)) = 1

\* The headers the handler gave respond.
GivenHeaders == IF call.r.Headers.isNil THEN EmptyMap ELSE call.r.Headers.m

\* The request's Accept-Encoding value contains "gzip".
AcceptsGzip ==
  /\ "Accept-Encoding" \in DOMAIN call.req.Headers
  /\ \E i \in 1..(Len(call.req.Headers["Accept-Encoding"]) - 3) :
       SubSeq(call.req.Headers["Accept-Encoding"], i, i + 3) = S_gzip

\* C11: for a response with no body stream, no handler-set Content-Length and
\* a request whose Accept-Encoding lacks "gzip", respond emits Content-Length
\* equal to the byte length of the body ("0" when the body is absent) and then
\* exactly the body bytes, so reading Content-Length bytes after the blank
\* line recovers the body.
C11_FixedLengthRoundTrip ==
  (/\ call.made
   /\ call.r.BodyReader.isNil
   /\ "Content-Length" \notin DOMAIN GivenHeaders
   /\ ~AcceptsGzip) =>
    /\ MapGet(rsp.Headers, "Content-Length") =
         (IF call.r.Body.isNil THEN S_0 ELSE Itoa(Len(call.r.Body.b)))
    /\ Responded =>
         /\ EmittedOnce("Content-Length")
         /\ DecimalValue(EmittedValue("Content-Length")) = Len(call.r.Body.b)
         /\ SubSeq(EmittedBody, 1,
                   DecimalValue(EmittedValue("Content-Length")))
              = call.r.Body.b
         /\ EmittedBody = call.r.Body.b

C11_Witness ==
  /\ Responded
  /\ call.r.BodyReader.isNil
  /\ call.r.Headers = MkMap(EmptyMap)
  /\ call.r.Body = MkBytes(<<"x">>)
  /\ "Accept-Encoding" \in DOMAIN call.req.Headers
  /\ call.req.Headers["Accept-Encoding"] = S_br
  /\ EmittedValue("Content-Length") = <<"1">>
  /\ EmittedBody = <<"x">>

\* C12: a response that carries a body stream is emitted with
\* Transfer-Encoding: chunked and without any Content-Length header, also
\* when the handler had set Content-Length.
C12_StreamIsChunkedWithoutLength ==
  (call.made /\ ~call.r.BodyReader.isNil) =>
    /\ MapGet(rsp.Headers, "Transfer-Encoding") = S_chunked
    /\ "Content-Length" \notin DOMAIN rsp.Headers
    /\ HeaderWrites("Content-Length") = {}
    /\ \A j \in DOMAIN conn :
         (conn[j].what = "blank" /\ conn[j].ok) =>
           \E i \in HeaderWrites("Transfer-Encoding") :
             /\ i < j
             /\ conn[i].bytes = <<"Transfer-Encoding", ":", " ">> \o S_chunked

C12_Witness ==
  /\ Responded
  /\ ~call.r.BodyReader.isNil
  /\ "Content-Length" \in DOMAIN GivenHeaders
  /\ EmittedOnce("Transfer-Encoding")
  /\ HeaderWrites("Content-Length") = {}

\* The number a string of hexadecimal digits stands for.
RECURSIVE HexValue(_)
HexValue(s) ==
  IF s = <<>> THEN 0
  ELSE 16 * HexValue(SubSeq(s, 1, Len(s) - 1))
         + (CHOOSE d \in 0..15 : Digits[d + 1] = s[Len(s)])

\* Where the first CRLF of bytes starts; 0 when there is none.
FirstCRLF(bytes) ==
  IF \E i \in 1..(Len(bytes) - 1) : SubSeq(bytes, i, i + 1) = CRLF
    THEN CHOOSE i \in 1..(Len(bytes) - 1) :
           /\ SubSeq(bytes, i, i + 1) = CRLF
           /\ \A j \in 1..(i - 1) : SubSeq(bytes, j, j + 1) # CRLF
    ELSE 0

\* A client's decoding of a chunked body: the sizes and the payload of the
\* chunks before the terminator chunk, and the bytes left after it.
RECURSIVE DecodeChunks(_)
DecodeChunks(bytes) ==
  LET at == FirstCRLF(bytes)
      size == SubSeq(bytes, 1, at - 1)
      n == HexValue(size)
      data == SubSeq(bytes, at + 2, Len(bytes))
  IN  IF at <= 1 \/ \E i \in 1..Len(size) : \A d \in 1..16 : Digits[d] # size[i]
        THEN [ok |-> FALSE, sizes |-> <<>>, payload |-> <<>>, rest |-> bytes]
      ELSE IF n = 0
        THEN [ok |-> Len(data) >= 2 /\ SubSeq(data, 1, 2) = CRLF, sizes |-> <<>>,
              payload |-> <<>>, rest |-> SubSeq(data, 3, Len(data))]
      ELSE IF Len(data) < n + 2 \/ SubSeq(data, n + 1, n + 2) # CRLF
        THEN [ok |-> FALSE, sizes |-> <<>>, payload |-> <<>>, rest |-> bytes]
      ELSE LET more == DecodeChunks(SubSeq(data, n + 3, Len(data)))
           IN  [ok |-> more.ok, sizes |-> <<size>> \o more.sizes,
                payload |-> SubSeq(data, 1, n) \o more.payload,
                rest |-> more.rest]

\* The writes of one kind, in order.
WritesOf(what) == SelectSeq(conn, LAMBDA w : w.what = what)

\* C13: when the stream's reads end in end-of-stream and every write
\* succeeds, respond emits chunks each with a non-zero hexadecimal length
\* equal to its payload length, then one zero-length terminator chunk as the
\* last bytes, and the chunk payloads concatenated are the stream content.
C13_ChunkedRoundTrip ==
  (Responded /\ ~call.r.BodyReader.isNil /\ loc.err = "EOF") =>
    LET d == DecodeChunks(EmittedBody)
    IN  /\ d.ok
        /\ d.payload = call.r.BodyReader.b
        /\ d.rest = <<>>
        /\ Len(WritesOf("zero")) = 1
        /\ Len(WritesOf("chunkSize")) = Len(d.sizes)
        /\ Len(WritesOf("chunkData")) = Len(d.sizes)
        /\ \A i \in 1..Len(d.sizes) :
             /\ WritesOf("chunkSize")[i].bytes = d.sizes[i]
             /\ HexValue(d.sizes[i]) = Len(WritesOf("chunkData")[i].bytes)
             /\ HexValue(d.sizes[i]) > 0
        /\ Len(conn) >= 3
        /\ Flatten(SubSeq(conn, Len(conn) - 2, Len(conn))) = S_0 \o CRLF \o CRLF

C13_Witness ==
  /\ Responded
  /\ ~call.r.BodyReader.isNil
  /\ loc.err = "EOF"
  /\ loc.n = 1
  /\ Len(WritesOf("chunkData")) = 2
  /\ DecodeChunks(EmittedBody).payload = <<"y", "z">>

\* What decompressing gzip output gives back.
Gunzip(z) ==
  IF Len(z) >= 2 /\ z[1] = "gzip-header" /\ z[Len(z)] = "gzip-trailer"
    THEN SubSeq(z, 2, Len(z) - 1)
    ELSE <<"not gzip">>

\* C14: for a non-streamed response with a body and a request whose
\* Accept-Encoding contains "gzip", respond emits Content-Encoding: gzip, the
\* gzip compression of the body as body and Content-Length equal to the
\* compressed length, whatever Content-Length was set before; otherwise the
\* body is emitted unmodified and no Content-Encoding header is added.
C14_GzipRoundTrip ==
  (call.made /\ call.r.BodyReader.isNil) =>
    IF AcceptsGzip /\ ~call.r.Body.isNil
      THEN /\ MapGet(rsp.Headers, "Content-Encoding") = S_gzip
           /\ ~loc.bodyToWrite.isNil
           /\ Gunzip(loc.bodyToWrite.b) = call.r.Body.b
           /\ MapGet(rsp.Headers, "Content-Length")
                = Itoa(Len(loc.bodyToWrite.b))
           /\ Responded =>
                /\ Gunzip(EmittedBody) = call.r.Body.b
                /\ EmittedOnce("Content-Length")
                /\ DecimalValue(EmittedValue("Content-Length"))
                     = Len(EmittedBody)
                /\ EmittedOnce("Content-Encoding")
                /\ EmittedValue("Content-Encoding") = S_gzip
      ELSE /\ loc.bodyToWrite = call.r.Body
           /\ "Content-Encoding" \notin DOMAIN rsp.Headers
           /\ Responded => EmittedBody = call.r.Body.b
                           /\ HeaderWrites("Content-Encoding") = {}

C14_Witness ==
  /\ Responded
  /\ call.r.BodyReader.isNil
  /\ call.r.Body = MkBytes(<<"x">>)
  /\ "Content-Length" \in DOMAIN GivenHeaders
  /\ call.req.Headers = [k \in {"Accept-Encoding"} |-> S_br_gzip]
  /\ EmittedValue("Content-Length") = <<"3">>
  /\ Gunzip(EmittedBody) = <<"x">>

(***************************************************************************)
(* What the bytes a client sent say, read off the whole input and not as   *)
(* parseRequest comes to them.                                             *)
(***************************************************************************)
\* The positions of c in bytes.
PositionsIn(bytes, c) == {i \in DOMAIN bytes : bytes[i] = c}

\* The position of the k-th c in bytes.
NthPosition(bytes, c, k) ==
  CHOOSE i \in PositionsIn(bytes, c) :
    Cardinality({j \in PositionsIn(bytes, c) : j <= i}) = k

RECURSIVE CutLines(_)
\* The lines of bytes that end in a line feed, each without the CR and LF
\* characters at its end.
CutLines(bytes) ==
  LET at == IndexByte(bytes, "\n")
  IN  IF at = 0 THEN <<>>
      ELSE <<TrimRight(SubSeq(bytes, 1, at), LineEnd)>>
             \o CutLines(SubSeq(bytes, at + 1, Len(bytes)))

RECURSIVE DropLines(_, _)
\* The bytes after the first k lines.
DropLines(bytes, k) ==
  IF k = 0 THEN bytes
  ELSE DropLines(SubSeq(bytes, IndexByte(bytes, "\n") + 1, Len(bytes)), k - 1)

\* The number of the empty line that ends the headers; 0 when there is none.
BlankOf(lines) ==
  IF \E k \in 2..Len(lines) : lines[k] = <<>>
    THEN CHOOSE k \in 2..Len(lines) :
           lines[k] = <<>> /\ \A j \in 2..(k - 1) : lines[j] # <<>>
    ELSE 0

\* The name and the value of a header line that has a colon.
PairOf(line) ==
  LET colon == IndexByte(line, ":")
  IN  [name |-> HeaderKey(TrimSpace(SubSeq(line, 1, colon - 1))),
       value |-> TrimSpace(SubSeq(line, colon + 1, Len(line)))]

\* The headers C17 states: for every name, the value of its last line among
\* the lines before the empty line.
LastWins(lines) ==
  LET colonLines == {k \in 2..(BlankOf(lines) - 1) : IndexByte(lines[k], ":") # 0}
      pairs == [k \in colonLines |-> PairOf(lines[k])]
  IN  [name \in {pairs[k].name : k \in colonLines} |->
         pairs[CHOOSE k \in colonLines :
                 /\ pairs[k].name = name
                 /\ \A j \in colonLines : pairs[j].name = name => j <= k].value]

InputLines == CutLines(hc.input)

BlankLine == BlankOf(InputLines)

BytesAfterBlank == DropLines(hc.input, BlankLine)

LastWinsHeaders == LastWins(InputLines)

\* The request line was read: parseRequest is past its first read, which
\* found a line feed.
RequestLineRead ==
  /\ result.made
  /\ hc.pc # "requestLine"
  /\ IndexByte(hc.input, "\n") # 0

\* parseRequest got through the request line and the header loop.
HeadersRead ==
  /\ result.made
  /\ \/ hc.pc \in {"body", "parsed", "panic", "handled", "respond", "closed",
                   "crashed"}
     \/ hc.pc = "failed" /\ result.err \in {"invalid Content-Length",
                                            "error reading request body"}

\* parseRequest has ended after the header loop: it returned or it panicked.
BodyStepDone == HeadersRead /\ hc.pc # "body"

\* The whitespace-separated tokens of a line.
RECURSIVE Tokens(_)
Tokens(line) ==
  IF line = <<>> THEN <<>>
  ELSE IF line[1] \in Whitespace THEN Tokens(Tail(line))
  ELSE LET n == IF \E i \in DOMAIN line : line[i] \in Whitespace
                  THEN (CHOOSE i \in DOMAIN line :
                          /\ line[i] \in Whitespace
                          /\ \A j \in 1..(i - 1) : line[j] \notin Whitespace) - 1
                  ELSE Len(line)
       IN  <<SubSeq(line, 1, n)>> \o Tokens(SubSeq(line, n + 1, Len(line)))

S_extra == <<"GET", " ", "/", "a", " ", "HTTP/1.1", " ", "extra">>

C17_HeaderLoop ==
  (result.made /\ hc.pc \notin {"requestLine", "headers"}) =>
    LET lines == InputLines
        blank == BlankOf(lines)
    IN  /\ HeadersRead =>
             blank # 0 /\ result.req.Headers = LastWins(lines)
        /\ result.err = "error reading header line" => blank = 0
        /\ (blank # 0
              /\ result.err \notin {"empty request line",
                                    "malformed request line",
                                    "unsupported HTTP version"}) =>
             HeadersRead

C17_Witness ==
  /\ hc.pc = "parsed"
  /\ result.req.Headers = [k \in {"X"} |-> <<"a", ":", "b">>]
  /\ BlankLine = 4
  /\ InputLines[2] = <<"Host", " ", "x">>
  /\ InputLines[3] = <<"X", ":", "a", ":", "b">>
  /\ BytesAfterBlank = <<"Host", ":", " ", "z", "\n">>

C17_WitnessLastWins ==
  /\ hc.pc = "parsed"
  /\ result.req.Headers = [k \in {"Host"} |-> <<"y">>]
  /\ BlankLine = 4
  /\ InputLines[2] = <<"Host", ":", " ", "x">>
  /\ InputLines[3] = <<" ", "Host", "\t", ":", " ", " ", "y", " ">>

\* A string of one or more decimal digits.
IsNonNegativeInteger(v) ==
  /\ v # <<>>
  /\ \A i \in DOMAIN v :
       v[i] \in {"0", "1", "2", "3", "4", "5", "6", "7", "8", "9"}

\* The request is a POST whose headers name a Content-Length.
PostWithLengthIn(lines) ==
  /\ Tokens(lines[1])[1] = S_POST
  /\ "Content-Length" \in DOMAIN LastWins(lines)

PostWithLength == PostWithLengthIn(InputLines)

\* C18: parseRequest sets Body exactly when the method is POST, a
\* Content-Length header is present with a valid value N and N bytes are
\* available, and Body is then the next N bytes after the blank line; for any
\* other method, and for POST without Content-Length, Body is absent and no
\* byte after the blank line is consumed.
C18_BodyOnlyForPostWithLength ==
  /\ (result.made /\ ~HeadersRead) => result.req.Body.isNil
  /\ (HeadersRead /\ hc.pc = "body") =>
       result.req.Body.isNil /\ reader = BytesAfterBlank
  /\ BodyStepDone =>
       LET lines == InputLines
           after == DropLines(hc.input, BlankOf(lines))
           post == PostWithLengthIn(lines)
           v == LastWins(lines)["Content-Length"]
           n == DecimalValue(v)
           present == post /\ IsNonNegativeInteger(v) /\ n <= Len(after)
       IN  /\ ~result.req.Body.isNil <=> present
           /\ present =>
                /\ result.req.Body.b = SubSeq(after, 1, n)
                /\ reader = SubSeq(after, n + 1, Len(after))
                /\ result.err = "nil"
           /\ ~post =>
                /\ reader = after
                /\ result.err = "nil"

C18_Witness ==
  /\ hc.pc = "parsed"
  /\ result.req.Body = MkBytes(<<"h">>)
  /\ reader = <<"i">>
  /\ PostWithLength
  /\ LastWinsHeaders["Content-Length"] = <<"1">>
  /\ BytesAfterBlank = <<"h", "i">>

\* C19: for a POST with a Content-Length header whose value is not a
\* non-negative integer, "a" or "-1" say, parseRequest returns the
\* invalid-Content-Length error, it does not crash, and it reads no body.
C19_InvalidLengthIsAnError ==
  (BodyStepDone /\ PostWithLength
     /\ ~IsNonNegativeInteger(LastWinsHeaders["Content-Length"])) =>
    /\ hc.pc \notin {"panic", "crashed"}
    /\ result.err = "invalid Content-Length"
    /\ result.req.Body.isNil
    /\ reader = BytesAfterBlank

\* C15: when parseRequest fails, the request handler is never invoked, one
\* response is written, with the status line "HTTP/1.1 400 Bad Request" and
\* Connection: close, and the connection is then closed; nothing is retried.
C15_ParseFailureGets400 ==
  (result.made /\ result.err # "nil") =>
    /\ hc.invoked = <<>>
    /\ ~res.called
    /\ hc.pc \in {"failed", "respond", "closed"}
    /\ hc.responds = (IF hc.pc = "failed" THEN 0 ELSE 1)
    /\ hc.closed <=> hc.pc = "closed"
    /\ hc.pc \in {"respond", "closed"} =>
         /\ call.made
         /\ loc.statusLine = <<"HTTP/1.1 400 Bad Request">>
         /\ MapGet(rsp.Headers, "Connection") = S_close
         /\ \A i \in DOMAIN conn :
              /\ (conn[i].what = "statusLine" /\ conn[i].ok) =>
                   i = 1 /\ conn[i].bytes = <<"HTTP/1.1 400 Bad Request">>
              /\ i \in HeaderWrites("Connection") =>
                   conn[i].bytes = <<"Connection", ":", " ">> \o S_close
         /\ (pc = "done" /\ AllWritten) =>
              /\ EmittedOnce("Connection")
              /\ Len(WritesOf("statusLine")) = 1
              /\ Len(WritesOf("blank")) = 1
              /\ EmittedBody = <<>>
    /\ hc.pc = "closed" => pc = "done"

C15_Witness ==
  /\ hc.pc = "closed"
  /\ hc.closed
  /\ result.err = "malformed request line"
  /\ AllWritten
  /\ DOMAIN tree # {RootNode}
  /\ conn[1].bytes = <<"HTTP/1.1 400 Bad Request">>
  /\ EmittedValue("Connection") = S_close

\* C20: when Search reports no match, HandleRequest invokes no registered
\* handler and returns a response with status 404 Not Found, and respond
\* sends that response with Connection: close.
C20_NoMatchIs404AndCloses ==
  (res.called /\ ~res.found) =>
    /\ hc.invoked = <<>>
    /\ hc.response.Status = StatusNotFound
    /\ call.made =>
         /\ call.r = hc.response
         /\ loc.statusLine = <<"HTTP/1.1 404 Not Found">>
         /\ MapGet(rsp.Headers, "Connection") = S_close
         /\ \A i \in HeaderWrites("Connection") :
              conn[i].bytes = <<"Connection", ":", " ">> \o S_close
         /\ (pc = "done" /\ AllWritten) => EmittedOnce("Connection")

C20_Witness ==
  /\ hc.pc = "closed"
  /\ res.called
  /\ ~res.found
  /\ AllWritten
  /\ DOMAIN tree # {RootNode}
  /\ MapGet(result.req.Headers, "Connection") = S_keepalive
  /\ conn[1].bytes = <<"HTTP/1.1 404 Not Found">>
  /\ EmittedValue("Connection") = S_close
  /\ EmittedBody = S_404

\* The payload bytes of the chunks written so far.
ChunkPayload == Flatten(WritesOf("chunkData"))

IsPrefix(a, b) == Len(a) <= Len(b) /\ SubSeq(b, 1, Len(a)) = a

\* C25: for a response with a body stream respond adds no Content-Encoding
\* header and emits the stream's bytes unmodified inside the chunks, also when
\* Accept-Encoding contains "gzip" and the response has a non-nil Body.
C25_StreamNeverCompressed ==
  (call.made /\ ~call.r.BodyReader.isNil) =>
    /\ "Content-Encoding" \notin DOMAIN rsp.Headers
    /\ HeaderWrites("Content-Encoding") = {}
    /\ loc.isChunked
    /\ IsPrefix(ChunkPayload, call.r.BodyReader.b)
    /\ (Responded /\ loc.err = "EOF") =>
         DecodeChunks(EmittedBody).payload = call.r.BodyReader.b

C25_Witness ==
  /\ Responded
  /\ loc.err = "EOF"
  /\ ~call.r.BodyReader.isNil
  /\ ~call.r.Body.isNil
  /\ AcceptsGzip
  /\ ChunkPayload = <<"y", "z">>

\* A write to the connection has returned an error.
WriteFailed == \E i \in DOMAIN conn : ~conn[i].ok

\* C26: after the first write that returns an error respond attempts no
\* further write and no further read of the body stream, and does not retry
\* the write: it returns.
C26_WriteErrorAborts ==
  [][WriteFailed =>
       /\ ~conn[Len(conn)].ok
       /\ \A i \in 1..(Len(conn) - 1) : conn[i].ok
       /\ pc = "done"
       /\ pc' = "idle"
       /\ conn' = <<>>
       /\ loc' = [made |-> FALSE]]_vars

C26_Witness ==
  /\ WriteFailed
  /\ conn[Len(conn)].what = "chunkData"
  /\ loc.reads = 1
  /\ loc.n = 1
  /\ pc = "done"

\* The read of the body stream that came last returned an error other than
\* end-of-stream.
ReadFailed == call.made /\ loc.made /\ loc.isChunked /\ loc.err = "error"

\* C27 (as stated): when a read of the body stream returns an error other
\* than end-of-stream, no chunk is emitted for that read and the terminator
\* chunk is not written.
C27_ReadErrorEmitsNothing ==
  [][(pc = "read" /\ loc'.reads = loc.reads + 1 /\ loc'.err = "error") =>
       /\ pc' = "done"
       /\ conn' = conn]_vars

\* C27 (amended): when a read of the body stream returns an error other than
\* end-of-stream, the bytes that read returned, if any, are still emitted as
\* one chunk, nothing more is read, and the terminator chunk is not written.
C27_ReadErrorStopsWithoutTerminator ==
  ReadFailed =>
    /\ WritesOf("zero") = <<>>
    /\ pc \in {"chunkSize", "chunkSizeCRLF", "chunkData", "chunkDataCRLF", "done"}
    /\ pc = "done" \/ loc.n > 0
    /\ (loc.n = 0 /\ AllWritten) => Len(WritesOf("chunkData")) < loc.reads
    /\ (pc = "done" /\ AllWritten) =>
         /\ ~DecodeChunks(EmittedBody).ok
         /\ conn[Len(conn)].what \in {"blank", "crlf"}
         /\ loc.n > 0 =>
              /\ WritesOf("chunkData") # <<>>
              /\ Len(WritesOf("chunkData")[Len(WritesOf("chunkData"))].bytes)
                   = loc.n

C27_Witness ==
  /\ ReadFailed
  /\ pc = "done"
  /\ AllWritten
  /\ loc.n = 1
  /\ loc.reads = 2
  /\ ChunkPayload = <<"y", "z">>
  /\ WritesOf("zero") = <<>>

\* The kinds of the writes made so far, in order.
Kinds == [i \in DOMAIN conn |-> conn[i].what]

BodyKinds == {"body", "chunkSize", "chunkData", "zero"}

\* C28: the writes occur in the order status line, CRLF, each response header
\* once as "Name: Value" followed by CRLF, one blank CRLF, then the body; no
\* body byte comes before the blank line and no header after it; the status
\* line is "HTTP/1.1 <code> <reason>" for 200, 201, 400, 404 and 500.
C28_WireOrder ==
  call.made =>
    /\ loc.statusLine =
         (CASE call.r.Status = StatusOK -> <<"HTTP/1.1 200 OK">>
            [] call.r.Status = StatusCreated -> <<"HTTP/1.1 201 Created">>
            [] call.r.Status = StatusBadRequest -> <<"HTTP/1.1 400 Bad Request">>
            [] call.r.Status = StatusNotFound -> <<"HTTP/1.1 404 Not Found">>
            [] call.r.Status = StatusInternalServerError ->
                 <<"HTTP/1.1 500 Internal Server Error">>)
    /\ \A i \in DOMAIN conn :
         /\ (i = 1) <=> (Kinds[i] \in {"statusLine"})
         /\ (Kinds[i] = "statusLine" /\ conn[i].ok) =>
              conn[i].bytes = loc.statusLine
         /\ (i = 2 /\ conn[i].ok) => (Kinds[i] = "crlf" /\ conn[i].bytes = CRLF)
         /\ (Kinds[i] = "header" /\ conn[i].ok) =>
              /\ conn[i].key \in DOMAIN rsp.Headers
              /\ conn[i].bytes
                   = <<conn[i].key, ":", " ">> \o rsp.Headers[conn[i].key]
              /\ \A j \in DOMAIN conn :
                   (Kinds[j] = "header" /\ conn[j].key = conn[i].key) => j = i
              /\ Kinds[i - 1] = "crlf"
              /\ (i < Len(conn) /\ conn[i + 1].ok) =>
                   (Kinds[i + 1] = "crlf" /\ conn[i + 1].bytes = CRLF)
              /\ \A j \in 1..i : Kinds[j] \notin BodyKinds \cup {"blank"}
         /\ (Kinds[i] = "blank" /\ conn[i].ok) =>
              /\ conn[i].bytes = CRLF
              /\ \A j \in DOMAIN conn : Kinds[j] = "blank" => j = i
              /\ {conn[j].key : j \in {h \in 1..i : Kinds[h] = "header"}}
                   = DOMAIN rsp.Headers
              /\ i = 3 + 2 * Cardinality(DOMAIN rsp.Headers)
         /\ (Kinds[i] \in BodyKinds /\ conn[i].ok) =>
              \E j \in 1..(i - 1) : Kinds[j] = "blank"

C28_Witness ==
  /\ Responded
  /\ call.r.Status = StatusCreated
  /\ Cardinality(DOMAIN rsp.Headers) = 3
  /\ Kinds = <<"statusLine", "crlf", "header", "crlf", "header", "crlf",
               "header", "crlf", "blank", "body">>
  /\ conn[1].bytes = <<"HTTP/1.1 201 Created">>

\* C30: when a response has both a non-nil Body and a non-nil BodyReader,
\* respond uses chunked framing, writes only the stream's content and never
\* writes a byte of Body nor derives Content-Length from it.
C30_StreamWinsOverBody ==
  (call.made /\ ~call.r.Body.isNil /\ ~call.r.BodyReader.isNil) =>
    /\ loc.isChunked
    /\ MapGet(rsp.Headers, "Transfer-Encoding") = S_chunked
    /\ "Content-Length" \notin DOMAIN rsp.Headers
    /\ WritesOf("body") = <<>>
    /\ \A i \in DOMAIN conn :
         \A k \in DOMAIN conn[i].bytes :
           conn[i].bytes[k] \notin {call.r.Body.b[j] : j \in DOMAIN call.r.Body.b}
    /\ IsPrefix(ChunkPayload, call.r.BodyReader.b)
    /\ pc # "body"

C30_Witness ==
  /\ Responded
  /\ loc.err = "EOF"
  /\ call.r.Body = MkBytes(<<"x">>)
  /\ ~call.r.BodyReader.isNil
  /\ "Content-Length" \notin DOMAIN GivenHeaders
  /\ ~AcceptsGzip
  /\ EmittedBody = <<"1">> \o CRLF \o <<"y">> \o CRLF \o <<"1">> \o CRLF
                     \o <<"z">> \o CRLF \o S_0 \o CRLF \o CRLF

\* parseRequest has ended: it returned, or it panicked.
ParseEnded == result.made /\ hc.pc \notin {"idle", "requestLine", "headers", "body"}

RequestLineErrors ==
  {"empty request line", "malformed request line", "unsupported HTTP version"}

\* parseRequest has ended, and it got through the request line and the header
\* loop before it did.
EndedAfterHeaders ==
  /\ ParseEnded
  /\ result.err \notin RequestLineErrors
                        \cup {"error reading request line",
                              "error reading header line"}

\* The input has no line feed at all.
EndsInRequestLine == IndexByte(hc.input, "\n") = 0

\* The input has a first line, and no empty line after it.
EndsInHeaders == ~EndsInRequestLine /\ BlankLine = 0

\* C29: parseRequest returns an error, and no request reaches the handler,
\* whenever the byte source ends before the parse is complete: before the
\* line feed of the request line, before the blank line that ends the header
\* block, or before the Content-Length bytes of a POST body are all read.
C29_TruncatedInputIsAnError ==
  /\ (result.made /\ (EndsInRequestLine \/ EndsInHeaders)) =>
       /\ hc.pc \notin {"body", "parsed", "handled", "panic", "crashed"}
       /\ hc.invoked = <<>>
       /\ ~res.called
       /\ ParseEnded => result.err # "nil"
       /\ (ParseEnded /\ EndsInRequestLine) =>
            result.err = "error reading request line"
       /\ (ParseEnded /\ EndsInHeaders) =>
            result.err \in RequestLineErrors \cup {"error reading header line"}
       /\ (ParseEnded /\ EndsInHeaders /\ result.req.Version = S_HTTP11) =>
            result.err = "error reading header line"
  /\ EndedAfterHeaders =>
       LET lines == InputLines
           after == DropLines(hc.input, BlankOf(lines))
           v == MapGet(LastWins(lines), "Content-Length")
       IN  (/\ PostWithLengthIn(lines)
            /\ IsNonNegativeInteger(v)
            /\ DecimalValue(v) > Len(after)) =>
             /\ result.err = "error reading request body"
             /\ result.req.Body.isNil
             /\ hc.pc \notin {"parsed", "handled", "panic", "crashed"}
             /\ hc.invoked = <<>>
             /\ ~res.called

C29_Witness ==
  /\ hc.pc = "closed"
  /\ hc.input = RequestLine("POST", <<"/", "a">>)
                  \o <<"Content-Length", ":", " ", "3">> \o CRLF \o CRLF
                  \o <<"h">>
  /\ result.err = "error reading request body"
  /\ hc.invoked = <<>>
  /\ ninserts = 1

C29_WitnessRequestLine ==
  /\ hc.pc = "closed"
  /\ hc.input = <<"GET", " ", "/", "a", " ", "HTTP/1.1">>
  /\ result.err = "error reading request line"

C29_WitnessHeaders ==
  /\ hc.pc = "closed"
  /\ hc.input = RequestLine("GET", <<"/", "a">>) \o <<"Host", ":", " ", "x">>
  /\ result.err = "error reading header line"

Pat_msg_v1 == Slash(<<S_echo, <<":">> \o S_msg, S_v1>>)

Pat_message_v2 == Slash(<<S_echo, <<":">> \o S_message, S_v2>>)

\* C23: unbinding on backtrack.  Every key of the params of a found Search is
\* the name of a parameter segment of the route that was matched, bound to
\* that route's text; a binding made in a parameter branch whose subtree did
\* not match is absent.  With /echo/:msg/v1 and /echo/:message/v2 registered,
\* Search(GET, /echo/hello/v1) returns exactly {msg: hello} and
\* Search(GET, /echo/world/v2) exactly {message: world}, whichever branch is
\* tried first.
C23_UnbindOnBacktrack ==
  /\ Found =>
       /\ ~res.params.isNil
       /\ \E p \in MatchedRoutes : BoundWithin(res.params.m, p, res.path)
       /\ \A q \in Registered(res.method) :
            ~Matches(q, res.path) =>
              \A name \in ParamNames(q)
                            \ UNION {ParamNames(p) : p \in MatchedRoutes} :
                name \notin DOMAIN res.params.m
  /\ (/\ res.called
      /\ res.method = "GET"
      /\ {Pat_msg_v1, Pat_message_v2} = Registered("GET")) =>
       /\ res.path = Slash(<<S_echo, S_hello, S_v1>>) =>
            /\ res.found
            /\ res.handler = Current("GET", Pat_msg_v1)
            /\ res.params = MkMap([n \in {S_msg} |-> S_hello])
       /\ res.path = Slash(<<S_echo, S_world, S_v2>>) =>
            /\ res.found
            /\ res.handler = Current("GET", Pat_message_v2)
            /\ res.params = MkMap([n \in {S_message} |-> S_world])

C23_Witness ==
  /\ Found
  /\ res.method = "GET"
  /\ Registered("GET") = {Pat_msg_v1, Pat_message_v2}
  /\ res.path = Slash(<<S_echo, S_world, S_v2>>)
  /\ res.params = MkMap([n \in {S_message} |-> S_world])
  /\ res.handler = "h2"
  /\ Current("GET", Pat_msg_v1) = "h1"

\* Some order of visiting finds a handler below node for segments.
Succeeds(t, node, segments, method) ==
  \E o \in searchNode(t, node, segments, method, EmptyMap) : o.ok

RECURSIVE Visited(_, _, _, _)
\* The nodes searchNode may visit from node on: the node, what is visited
\* under the literal child, and, when that fails and the segment is not
\* empty, what is visited under the parameter children.
Visited(t, node, segments, method) ==
  {<<node, segments>>} \cup
  IF Len(segments) = 0 THEN {}
  ELSE LET seg == Head(segments)
           rest == Tail(segments)
           n == t[node]
       IN  (IF HasLiteralChild(n, seg)
              THEN Visited(t, n.children[seg], rest, method)
              ELSE {})
           \cup
           (IF \/ seg = EmptyString
               \/ HasLiteralChild(n, seg)
                    /\ Succeeds(t, n.children[seg], rest, method)
              THEN {}
              ELSE UNION {Visited(t, n.parameterChildren[name], rest, method)
                          : name \in DOMAIN n.parameterChildren})

\* The visits of the Search that res holds the result of.
VisitedNow == Visited(tree, RootNode, Split(res.path), res.method)

\* What that Search may return, over the orders of visiting.
OutcomesNow == Search(tree, res.method, res.path)

\* Every node visited has at most one parameter child.
SingleParameterChildren ==
  \A v \in VisitedNow : Cardinality(DOMAIN tree[v[1]].parameterChildren) <= 1

\* The subtrees of two parameter children of a visited node both match what
\* is left of the path.
TwoBranchesMatch ==
  \E v \in VisitedNow :
    /\ Len(v[2]) > 0
    /\ \E x, y \in DOMAIN tree[v[1]].parameterChildren :
         /\ x # y
         /\ Succeeds(tree, tree[v[1]].parameterChildren[x], Tail(v[2]), res.method)
         /\ Succeeds(tree, tree[v[1]].parameterChildren[y], Tail(v[2]), res.method)

\* The first half of C24: a Search that visits only nodes with at most one
\* parameter child has one outcome.
SinglePathIsDeterministic ==
  (res.called /\ SingleParameterChildren) => Cardinality(OutcomesNow) = 1

\* C24: Search gives the same handler and params for every order of visiting
\* the parameter children whenever every node visited has at most one
\* parameter child; the result depends on the order only at a node with
\* several differently named parameter children whose subtrees both match.
C24_OrderMattersOnlyWhenTwoBranchesMatch ==
  res.called =>
    /\ SingleParameterChildren => Cardinality(OutcomesNow) = 1
    /\ Cardinality(OutcomesNow) > 1 => TwoBranchesMatch

\* The order decides the params although one branch only matches.
C24_Witness ==
  /\ Found
  /\ Cardinality(OutcomesNow) = 2
  /\ ~TwoBranchesMatch
  /\ Cardinality({o.handler : o \in OutcomesNow}) = 1
  /\ res.method = "POST"
  /\ res.path = Path_a_b

\* GET /echo/:msg is registered and its current handler is an echo handler.
EchoRegistered ==
  /\ <<"GET", Pat_echo>> \in DOMAIN routes
  /\ Current("GET", Pat_echo) \in {"echo", "echoLength"}

\* C21: end to end.  With a handler registered at GET /echo/:msg that writes
\* params["msg"] as the body, a request "GET /echo/<s> HTTP/1.1" with a Host
\* header, no Accept-Encoding and a non-empty s without a slash produces
\* status 200, body s and Content-Length equal to the length of s.
C21_EchoEndToEnd ==
  \A s \in EchoTexts :
    (EchoRegistered /\ hc.pc # "idle" /\ hc.input \in EchoRequestsOf(s)) =>
      /\ result.err = "nil"
      /\ hc.pc \notin {"failed", "panic", "crashed"}
      /\ hc.pc \in {"handled", "respond", "closed"} =>
           /\ res.found
           /\ res.params = MkMap([n \in {S_msg} |-> s])
           /\ hc.invoked = <<Current("GET", Pat_echo)>>
           /\ hc.response.Status = StatusOK
           /\ hc.response.Body = MkBytes(s)
      /\ hc.pc \in {"respond", "closed"} =>
           /\ call.made
           /\ loc.statusLine = <<"HTTP/1.1 200 OK">>
           /\ MapGet(rsp.Headers, "Content-Length") = Itoa(Len(s))
           /\ DOMAIN rsp.Headers \cap {"Content-Encoding", "Transfer-Encoding"}
                = {}
           /\ hc.responds = 1
           /\ Responded =>
                /\ conn[1].bytes = <<"HTTP/1.1 200 OK">>
                /\ EmittedBody = s
                /\ EmittedOnce("Content-Length")
                /\ EmittedValue("Content-Length") = Itoa(Len(s))
                /\ DecimalValue(EmittedValue("Content-Length")) = Len(s)

C21_Witness ==
  /\ hc.pc = "closed"
  /\ Responded
  /\ EchoRegistered
  /\ Current("GET", Pat_echo) = "echo"
  /\ hc.input = RequestLine("GET", Slash(<<S_echo, S_hello>>))
                  \o S_Host \o CRLF \o CRLF
  /\ conn[1].bytes = <<"HTTP/1.1 200 OK">>
  /\ EmittedBody = S_hello
  /\ EmittedValue("Content-Length") = <<"5">>

C21_WitnessTenBytes ==
  /\ hc.pc = "closed"
  /\ Responded
  /\ EchoRegistered
  /\ Current("GET", Pat_echo) = "echoLength"
  /\ Len(EmittedBody) = 10
  /\ EmittedValue("Content-Length") = <<"1", "0">>
  /\ ninserts = 2

\* The segments of the path of Search i.
SegmentsOf(i) ==
  LET segs == Split(searches[i].path) IN {segs[k] : k \in DOMAIN segs}

\* Search i has begun and not been discarded.
InFlight(i) == searches[i].pc # "idle"

\* C22: with the Insert calls done, Search calls that run at the same time,
\* their steps interleaved in any order, each return a (handler, params,
\* found) that the same call returns when it runs alone; no step of a Search
\* changes the trie, and a binding of one Search never shows in the params of
\* another.
C22_ConcurrentSearchesAreIndependent ==
  /\ [](\A i \in Searchers :
          /\ searches[i].pc = "returned" =>
               searches[i].result
                 \in Search(tree, searches[i].method, searches[i].path)
          /\ InFlight(i) =>
               \A name \in DOMAIN searches[i].params :
                 searches[i].params[name] \in SegmentsOf(i))
  /\ [][(\E i \in Searchers : InFlight(i) \/ InFlight(i)') =>
          (tree' = tree /\ routes' = routes)]_vars

\* Two Searches are under way, each with a binding the other's path has no
\* segment for, and one is in the second parameter branch of the root.
C22_Witness ==
  /\ searches[1].pc = "running"
  /\ searches[2].pc = "running"
  /\ searches[1].path = Path_a_a
  /\ searches[2].path = <<"b", "/", "b">>
  /\ searches[1].params # EmptyMap
  /\ searches[2].params # EmptyMap
  /\ searches[2].stack[1].stage = "bound"
  /\ searches[2].stack[1].todo = {}
  /\ Cardinality(DOMAIN tree[RootNode].parameterChildren) = 2
  /\ ninserts = 2

C22_WitnessReturned ==
  /\ searches[1].pc = "returned"
  /\ searches[2].pc = "returned"
  /\ searches[1].result.found
  /\ searches[2].result.found
  /\ searches[1].result.params # searches[2].result.params
  /\ searches[1].path # searches[2].path

\* The values of types.Method the package names.
EnumeratedMethods ==
  {<<"GET">>, <<"POST">>, <<"PUT">>, <<"PATCH">>, <<"DELETE">>}

\* parseRequest returned a request and no error.
ParsedWithoutError ==
  /\ result.made
  /\ result.err = "nil"
  /\ hc.pc \notin {"idle", "requestLine", "headers", "body", "panic", "crashed"}

\* The version half of C32: a request parsed without error has Version
\* "HTTP/1.1".
ParsedVersionIsHTTP11 == ParsedWithoutError => result.req.Version = S_HTTP11

\* C32: every Request that parseRequest returns without error has Version
\* "HTTP/1.1" and a Method that is one of GET, POST, PUT, PATCH, DELETE.
C32_ParsedMethodAndVersion ==
  ParsedWithoutError =>
    /\ result.req.Version = S_HTTP11
    /\ result.req.Method \in EnumeratedMethods

\* A request with a method outside the enumeration was parsed without error.
C32_Witness ==
  /\ ParsedWithoutError
  /\ result.req.Method = <<"BREW">>
  /\ result.req.Version = S_HTTP11
  /\ result.req.Target = <<"/", "a">>

\* The handler of a route was invoked for the connection.
HandlerInvoked == hc.pc \in {"handled", "respond", "closed"} /\ hc.invoked # <<>>

\* C33: a found Search returns a params map that is not nil, and that is
\* empty when the matched route has no parameter segment; HandleRequest
\* passes that map as req.Params to the handler, which so never sees an
\* absent params map.
C33_ParamsNeverAbsent ==
  /\ Found =>
       /\ ~res.params.isNil
       /\ (\A p \in MatchedRoutes : ParamNames(p) = {}) =>
            res.params = MkMap(EmptyMap)
  /\ HandlerInvoked =>
       /\ Found
       /\ ~result.req.Params.isNil
       /\ result.req.Params = res.params

C33_Witness ==
  /\ HandlerInvoked
  /\ res.path = <<"/", "a">>
  /\ Registered(res.method) = {<<"/", "a">>}
  /\ result.req.Params = MkMap(EmptyMap)

\* The response HandleRequest makes before it calls a handler.
FreshResponse ==
  [Status |-> StatusOK, Headers |-> MkMap(EmptyMap), Body |-> NilBytes,
   BodyReader |-> NilBytes]

\* C34: on a match HandleRequest invokes the resolved handler exactly once,
\* with a response made for the call whose status is 200 and whose header
\* map is empty and not nil, and returns that response as the handler left
\* it: it is what respond is then called with.
C34_HandlerGetsFreshResponse ==
  (hc.pc \in {"handled", "respond", "closed"} /\ Found) =>
    /\ hc.invoked = <<res.handler>>
    /\ hc.given = FreshResponse
    /\ hc.response \in Handled(res.handler, FreshResponse, res.params)
    /\ hc.pc \in {"respond", "closed"} =>
         (call.made /\ call.r = hc.response)

C34_Witness ==
  /\ hc.pc = "respond"
  /\ Found
  /\ hc.invoked = <<"h2">>
  /\ hc.response.Status = StatusCreated
  /\ hc.response.Headers = MkMap([k \in {"Connection"} |-> S_keepalive])
  /\ call.r = hc.response

\* The step is an Insert call.
IsInsert == ninserts' = ninserts + 1

\* The (method, pattern) the Insert of this step was called with.
InsertedKeys ==
  {k \in DOMAIN routes' : k \notin DOMAIN routes \/ routes'[k] # routes[k]}

\* What a Search can say about found and handler, over the visiting orders.
Verdicts(t, method, path) ==
  {[found |-> r.found, handler |-> r.handler] : r \in Search(t, method, path)}

\* The part of C35 about found and handler: an Insert for one method leaves
\* both as they were for every Search of another method.
InsertKeepsOtherMethodsVerdicts ==
  [][IsInsert =>
       \A k \in InsertedKeys :
         \A m2 \in Methods \ {k[1]}, p \in RequestPaths :
           Verdicts(tree', m2, p) = Verdicts(tree, m2, p)]_vars

\* C35: Insert(m, pattern, h) does not change what Search returns for any
\* other method: for every method m2 other than m and every path p the set
\* of possible results of Search(m2, p), found flag, handler and params, is
\* the same before and after the Insert.
C35_InsertLeavesOtherMethods ==
  [][IsInsert =>
       \A k \in InsertedKeys :
         \A m2 \in Methods \ {k[1]}, p \in RequestPaths :
           Search(tree', m2, p) = Search(tree, m2, p)]_vars

\* A Search of POST lost a binding of its only matching route in a trie in
\* which the one other Insert was for GET.
C35_Witness ==
  /\ Found
  /\ res.method = "POST"
  /\ ninserts = 2
  /\ Cardinality(Registered("POST")) = 1
  /\ Cardinality(Registered("GET")) = 1
  /\ \A p \in Registered("POST") : DOMAIN res.params.m # ParamNames(p)

\* C36: found-monotonicity.  For every method and path, a Search that finds
\* a handler finds one after every further Insert call, for every order of
\* visiting: the handler may change, the path does not stop resolving.
C36_FoundStaysFound ==
  [][IsInsert =>
       \A m \in Methods, p \in RequestPaths :
         (\E r \in Search(tree, m, p) : r.found) =>
           (\A r \in Search(tree', m, p) : r.found)]_vars

\* A path resolves after its route was registered a second time, now to the
\* other handler, and a route of the other method was never there.
C36_Witness ==
  /\ Found
  /\ ninserts = 2
  /\ \E q \in MatchedRoutes :
       /\ routes[<<res.method, q>>] = <<"h1", "h2">>
       /\ ParamNames(q) # {}
  /\ res.handler = "h2"

\* The headers respond is to emit name a length, and name chunked framing.
HasLength == "Content-Length" \in DOMAIN rsp.Headers

HasChunked == MapGet(rsp.Headers, "Transfer-Encoding") = S_chunked

\* The header block was written whole.
HeadersEmitted == \E j \in DOMAIN conn : conn[j].what = "blank" /\ conn[j].ok

\* The part of C37 that holds for every handler: one of the two headers is
\* there; and both are never there when the handler set no Transfer-Encoding.
FramingHeaderPresent ==
  call.made =>
    /\ HasLength \/ HasChunked
    /\ "Transfer-Encoding" \notin DOMAIN GivenHeaders =>
         ~(HasLength /\ HasChunked)

\* C37: framing-header exclusivity.  No response respond emits carries both
\* a Content-Length header and Transfer-Encoding: chunked, and every one
\* carries at least one of the two, whatever headers the handler set and
\* whether there is a body or a body stream.
C37_FramingExclusive ==
  call.made =>
    /\ ~(HasLength /\ HasChunked)
    /\ HasLength \/ HasChunked
    /\ HeadersEmitted =>
         /\ ~(HeaderWrites("Content-Length") # {}
                /\ HeaderWrites("Transfer-Encoding") # {})
         /\ HeaderWrites("Content-Length") # {}
              \/ HeaderWrites("Transfer-Encoding") # {}

\* A response without a body stream went out with both headers.
C37_Witness ==
  /\ Responded
  /\ call.r.BodyReader.isNil
  /\ call.r.Body = MkBytes(<<"x">>)
  /\ GivenHeaders = [k \in {"Transfer-Encoding"} |-> S_chunked]
  /\ EmittedOnce("Content-Length")
  /\ EmittedOnce("Transfer-Encoding")
  /\ EmittedValue("Content-Length") = <<"1">>
  /\ EmittedValue("Transfer-Encoding") = S_chunked
  /\ EmittedBody = <<"x">>

\* Every call of searchNode of Search i got one segment less than its caller.
OneSegmentPerLevel(i) ==
  \A k \in DOMAIN searches[i].stack :
    Len(searches[i].stack[k].segments) = Len(Split(searches[i].path)) - k + 1

\* A step of Search i that descends into a parameter child takes a child the
\* loop had not taken before in this visit of the node, and never takes it
\* again.
VisitsOnce(i) ==
  LET s == searches[i]
      s2 == searches[i]'
  IN  (/\ s.pc = "running"
       /\ s2.pc = "running"
       /\ Len(s2.stack) = Len(s.stack) + 1
       /\ s.stack[Len(s.stack)].stage # "enter") =>
        LET f == s.stack[Len(s.stack)]
            g == s2.stack[Len(s.stack)]
        IN  /\ g.name \in f.todo
            /\ g.name \in DOMAIN tree[f.node].parameterChildren
            /\ g.todo = f.todo \ {g.name}

\* C38: Search terminates.  On every trie built by Insert calls and every
\* path, each level of the recursion has one segment less than the level
\* above, each parameter child of a node is taken at most once per visit of
\* the node, and a Search that has begun returns, with a match or not-found.
C38_SearchTerminates ==
  /\ [](\A i \in Searchers :
          /\ searches[i].pc = "running" =>
               /\ OneSegmentPerLevel(i)
               /\ Len(searches[i].stack) <= Len(Split(searches[i].path)) + 1
          /\ searches[i].pc = "returned" =>
               searches[i].result.found \in BOOLEAN)
  /\ [][\A i \in Searchers : VisitsOnce(i)]_vars
  /\ \A i \in Searchers :
       (searches[i].pc = "running") ~> (searches[i].pc = "returned")

\* A Search returned not-found after it went into a parameter child and came
\* back, while the other Search was still under way.
C38_Witness ==
  /\ searches[1].pc = "returned"
  /\ ~searches[1].result.found
  /\ searches[1].path = <<"b", "/", "b">>
  /\ DOMAIN tree[RootNode].parameterChildren = {<<"a">>}
  /\ ninserts = 2
  /\ searches[2].pc = "running"
  /\ Len(searches[2].stack) = 3

\* The pattern segments that Insert calls gave for a child of node n: the
\* segment after the segments that lead to n.
RECURSIVE LeadsTo(_, _)
LeadsTo(segs, n) ==
  IF Len(n) = 0 THEN TRUE
  ELSE /\ Len(segs) >= Len(n)
       /\ LET seg == segs[Len(n)]
              step == n[Len(n)]
          IN  /\ step[1] = (IF HasPrefix(seg) THEN "p" ELSE "c")
              /\ step[2] = TrimPrefix(seg)
       /\ LeadsTo(segs, SubSeq(n, 1, Len(n) - 1))

SegmentsGivenAt(n) ==
  {Split(key[2])[Len(n) + 1] :
     key \in {k \in DOMAIN routes : /\ Len(Split(k[2])) > Len(n)
                                    /\ LeadsTo(Split(k[2]), n)}}

\* handlers is non-empty exactly at the nodes marked as end of path.
HandlersIffEndOfPath ==
  \A n \in DOMAIN tree : (tree[n].handlers # EmptyMap) <=> tree[n].isEndOfPath

\* A node made through a parameter branch has the key it is stored under as
\* its paramName, and that key is a pattern segment without its first ':'.
ParamKeysAreNames ==
  \A n \in DOMAIN tree :
    \A k \in DOMAIN tree[n].parameterChildren :
      /\ tree[n].parameterChildren[k] \in DOMAIN tree
      /\ tree[tree[n].parameterChildren[k]].paramName = k
      /\ (<<":">> \o k) \in SegmentsGivenAt(n)

\* No key of a children map starts with ':', and the nodes there have no
\* paramName.
LiteralKeysHaveNoColon ==
  \A n \in DOMAIN tree :
    \A k \in DOMAIN tree[n].children :
      /\ ~HasPrefix(k)
      /\ tree[n].children[k] \in DOMAIN tree
      /\ tree[tree[n].children[k]].paramName = EmptyString
      /\ k \in SegmentsGivenAt(n)

\* C39 as amended: after any sequence of Insert calls, a node's handlers map
\* is non-empty if and only if the node is marked as end of path; each node
\* made through a parameter branch has paramName equal to the key it is
\* stored under in parameterChildren, and that key is the pattern segment
\* with its one leading ':' removed, so that it starts with ':' exactly when
\* the segment starts with "::"; no key of a children map starts with ':'.
C39_TrieStructureOneColonRemoved ==
  /\ HandlersIffEndOfPath
  /\ ParamKeysAreNames
  /\ LiteralKeysHaveNoColon
  /\ \A n \in DOMAIN tree :
       \A k \in DOMAIN tree[n].parameterChildren :
         HasPrefix(k) <=>
           \E seg \in SegmentsGivenAt(n) :
             TrimPrefix(seg) = k /\ Len(seg) >= 2 /\ seg[2] = ":"

\* C39: trie structure after any sequence of Insert calls.  A node's
\* handlers map is non-empty if and only if the node is marked as end of
\* path; each node made through a parameter branch has paramName equal to
\* its key in parameterChildren, and that key never starts with ':'; no key
\* of a children map starts with ':'.
C39_TrieStructure ==
  /\ HandlersIffEndOfPath
  /\ ParamKeysAreNames
  /\ LiteralKeysHaveNoColon
  /\ \A n \in DOMAIN tree :
       \A k \in DOMAIN tree[n].parameterChildren : ~HasPrefix(k)

\* Insert(GET, "::a/a") and Insert(POST, ":a"): the root has the parameter
\* children ":a" and "a", and under ":a" a literal child "a" at the end of a
\* path.
C39_Witness ==
  /\ ninserts = 2
  /\ DOMAIN tree[RootNode].parameterChildren = {<<":", "a">>, <<"a">>}
  /\ <<<<"p", <<":", "a">>>>, <<"c", <<"a">>>>>> \in DOMAIN tree
  /\ tree[<<<<"p", <<":", "a">>>>>>].paramName = <<":", "a">>
  /\ ~tree[<<<<"p", <<":", "a">>>>>>].isEndOfPath
  /\ tree[<<<<"p", <<"a">>>>>>].isEndOfPath
  /\ DOMAIN tree[<<<<"p", <<"a">>>>>>].handlers = {"POST"}
  /\ tree[<<<<"p", <<":", "a">>>>, <<"c", <<"a">>>>>>].isEndOfPath

\* How far handleConnection has come on the connection it handles.
Progress ==
  CASE hc.pc \in {"idle"} -> 0
    [] hc.pc \in {"parsed", "failed", "panic"} -> 2
    [] hc.pc = "handled" -> 3
    [] hc.pc = "respond" -> 4
    [] hc.pc \in {"closed", "crashed"} -> 5
    [] OTHER -> 1

\* conn.Close() has run on the connection.
ConnClosed == hc.pc # "idle" /\ hc.closed

\* A connection is being handled.
Accepted == hc.pc \notin {"idle", "closed", "crashed"}

\* parseRequest, the handler and respond run at most once each and in that
\* order; nothing is written before respond is called.
OneOfEachInOrder ==
  hc.pc # "idle" =>
    /\ Len(hc.invoked) <= 1
    /\ hc.responds <= 1
    /\ hc.invoked # <<>> => Progress >= 3 /\ result.err = "nil"
    /\ hc.responds = 1 <=> Progress >= 4 /\ hc.pc # "crashed"
    /\ hc.responds = 0 => ~call.made /\ conn = <<>>
    /\ ConnClosed <=> Progress = 5

\* handleConnection never goes back on a connection.
NeverGoesBack == Accepted => Progress' >= Progress

\* C31 without the requests on which parseRequest panics: one parseRequest,
\* at most one handler invocation and one respond, in that order, and the
\* connection is closed in the end.
HandledOnceUnlessPanic ==
  /\ [](OneOfEachInOrder
          /\ (ConnClosed /\ hc.pc # "crashed" => hc.responds = 1 /\ pc = "done"))
  /\ [][NeverGoesBack]_vars
  /\ (Accepted ~> ConnClosed)

\* C31: an accepted connection gets at most one parseRequest, at most one
\* handler invocation and exactly one respond, in that order, and is then
\* closed; every connection whose reads and writes return is closed in the
\* end, on the success path and on every failure path, whichever Connection
\* header was emitted.
C31_OneRespondThenClose ==
  /\ [](OneOfEachInOrder
          /\ (ConnClosed => hc.responds = 1 /\ pc = "done"))
  /\ [][NeverGoesBack]_vars
  /\ (Accepted ~> ConnClosed)

\* The connection was closed with no call of respond: parseRequest panicked
\* on Content-Length: -1.
C31_Witness ==
  /\ hc.pc = "crashed"
  /\ hc.closed
  /\ hc.responds = 0
  /\ ~call.made
  /\ conn = <<>>
  /\ hc.invoked = <<>>
  /\ MapGet(result.req.Headers, "Content-Length") = <<"-", "1">>

\* Connections closed after their one respond, with Connection: keep-alive
\* and with Connection: close.
ClosedAfterKeepAlive ==
  /\ hc.pc = "closed"
  /\ hc.responds = 1
  /\ Len(hc.invoked) = 1
  /\ AllWritten
  /\ EmittedValue("Connection") = S_keepalive

====
